---- MODULE Spec2Model ----
(***************************************************************************)
(* A model of the EAC runtime: the IR interpreter (eac/runtime/            *)
(* interpreter.py), its tool registry (eac/runtime/tools/__init__.py) and  *)
(* the spreadsheet tools (eac/runtime/tools/excel.py).                     *)
(*                                                                         *)
(* Python values are tagged records: the field t names the Python type.    *)
(* A dict is Dict(kv) with kv a function from its string keys; a list is   *)
(* List(xs) with xs a sequence.  Numbers are integers.                     *)
(***************************************************************************)
EXTENDS Integers, Sequences, FiniteSets, TLC

----------------------------------------------------------------------------
(* Bounds *)

\* longest generated program (top-level steps drawn freely from StepPool)
MaxSteps == 1
\* number of run() calls made one after the other in one process
MaxRuns == 2

----------------------------------------------------------------------------
(* Python values *)

None == [t |-> "none"]
PyInt(n) == [t |-> "int", n |-> n]
Str(s) == [t |-> "str", s |-> s]
Bool(b) == [t |-> "bool", b |-> b]
List(xs) == [t |-> "list", xs |-> xs]
Tuple(xs) == [t |-> "tuple", xs |-> xs]
Dict(kv) == [t |-> "dict", kv |-> kv]
\* an openpyxl Workbook object loaded from file f
WorkbookObj(f) == [t |-> "workbook", file |-> f]
EmptyDict == Dict([k \in {} |-> None])

IsDict(v) == v.t = "dict"
IsList(v) == v.t = "list"
IsStr(v) == v.t = "str"
\* v == s for a Python value v and a string literal s
StrEq(v, s) == v.t = "str" /\ v.s = s
\* d.get(k)
Get(d, k) == IF k \in DOMAIN d.kv THEN d.kv[k] ELSE None
\* d.get(k, dflt)
GetOr(d, k, dflt) == IF k \in DOMAIN d.kv THEN d.kv[k] ELSE dflt
\* `k in env` for a Python value k used as a key of the str-keyed dict e
InEnv(k, e) == k.t = "str" /\ k.s \in DOMAIN e
\* Python truthiness of the values that the code tests with `if v` / `not v`
Truthy(v) ==
    CASE v.t = "none" -> FALSE
      [] v.t = "bool" -> v.b
      [] v.t = "int" -> v.n # 0
      [] v.t = "str" -> v.s # ""
      [] v.t = "list" -> Len(v.xs) > 0
      [] v.t = "tuple" -> Len(v.xs) > 0
      [] v.t = "dict" -> DOMAIN v.kv # {}
      [] OTHER -> TRUE

\* env[k] = v
SetEnv(e, k, v) == [n \in DOMAIN e \cup {k} |-> IF n = k THEN v ELSE e[n]]
\* a loop end that leaves the loop variable bound
PopEnv_Keep(e, k) == e
\* env.pop(k, None)
PopEnv(e, k) == [n \in DOMAIN e \ {k} |-> e[n]]
EmptyEnv == [n \in {} |-> None]

----------------------------------------------------------------------------
(* IR nodes, as lowering.py emits them and as the tests write them *)

Ref(name) == Dict([type |-> Str("ref"), name |-> Str(name)])
Qualified(base, field) ==
    Dict([type |-> Str("qualified"), base |-> Str(base), field |-> Str(field)])
NumberNode(n) == Dict([type |-> Str("number"), value |-> PyInt(n)])
Comparison(left, op, right) ==
    Dict([type |-> Str("comparison"), left |-> left, op |-> Str(op), right |-> right])

\* IRStep: id and op are strings, args a dict, result a str or None;
\* result_type keeps its default None unless lowering sets it
IRStep(id, op, args, result) ==
    [id |-> id, op |-> op, args |-> args, result |-> result, result_type |-> None]
\* a body step: the dict lowering.py puts into args["body"]
BodyStep(id, op, args, result) ==
    Dict([id |-> Str(id), op |-> Str(op), args |-> args, result |-> result])

----------------------------------------------------------------------------
(* interpreter.py: _resolve_refs *)

RECURSIVE _resolve_refs(_, _)
_resolve_refs(value, e) ==
    IF IsDict(value) THEN
        IF StrEq(Get(value, "type"), "ref") /\ InEnv(Get(value, "name"), e)
        THEN e[Get(value, "name").s]
        ELSE IF StrEq(Get(value, "type"), "qualified")
        THEN LET base == Get(value, "base")
                 field == Get(value, "field")
             IN  IF base # None /\ field # None /\ InEnv(base, e)
                    /\ IsDict(e[base.s])
                 THEN IF IsStr(field) THEN Get(e[base.s], field.s) ELSE None
                 ELSE value
        ELSE Dict([k \in DOMAIN value.kv |-> _resolve_refs(value.kv[k], e)])
    ELSE IF IsList(value)
    THEN List([i \in 1..Len(value.xs) |-> _resolve_refs(value.xs[i], e)])
    ELSE value

\* op.startswith("table.")
StartsWithTable(op) == op \in {"table.add_column", "table.filter", "table.sort"}

\* a substitution by env.get(name): an unbound name becomes None
ResolveTableByName_Unbound(op, args, e) ==
    LET Lookup(name) == IF InEnv(name, e) THEN e[name.s] ELSE None
        a1 == IF StartsWithTable(op) /\ IsStr(Get(args, "table"))
              THEN Dict([args.kv EXCEPT !["table"] = Lookup(Get(args, "table"))])
              ELSE args
    IN  IF op = "excel.export" /\ IsStr(Get(a1, "source"))
        THEN Dict([a1.kv EXCEPT !["source"] = Lookup(Get(a1, "source"))])
        ELSE a1

\* the by-name substitution of args["table"] / args["source"]
ResolveTableByName(op, args, e) ==
    LET a1 == IF StartsWithTable(op) /\ InEnv(Get(args, "table"), e)
              THEN Dict([args.kv EXCEPT !["table"] = e[Get(args, "table").s]])
              ELSE args
    IN  IF op = "excel.export" /\ InEnv(Get(a1, "source"), e)
        THEN Dict([a1.kv EXCEPT !["source"] = e[Get(a1, "source").s]])
        ELSE a1

----------------------------------------------------------------------------
(* The file system the tools see.  Amounts are in tenths (755 is 75.5). *)

Row(name, balance) == Dict([Name |-> Str(name), Balance |-> PyInt(balance)])

\* the workbooks that exist on disk; each has the one sheet "Data"
WorkbookFiles == {"a.xlsx", "b.xlsx"}
\* the data rows below the header row of sheet "Data" of workbook f
SheetRows(f) ==
    IF f = "a.xlsx"
    THEN <<Row("Alice", 500), Row("Bob", 0), Row("Carol", 755)>>
    ELSE <<Row("Dave", 20)>>

----------------------------------------------------------------------------
(* tools/excel.py, tools/web.py, tools/__init__.py *)

\* what a tool call gives back: raised, or a return value; the workbook
\* stack and the exported csv after the call
Returned(ret, stack, csv) == [raised |-> FALSE, ret |-> ret, stack |-> stack, csv |-> csv]
Raised(stack, csv) == [raised |-> TRUE, ret |-> None, stack |-> stack, csv |-> csv]

HasArgs(args, names) == names \subseteq DOMAIN args.kv

excel_open_workbook(args, stack, csv, has_openpyxl) ==
    IF ~HasArgs(args, {"path"}) THEN Raised(stack, csv)
    ELSE LET path == args.kv["path"] IN
         IF ~has_openpyxl
         THEN LET entry == Dict([path |-> path, open |-> Bool(TRUE)])
              IN  Returned(entry, Append(stack, entry), csv)
         ELSE IF ~(IsStr(path) /\ path.s \in WorkbookFiles)
              THEN Raised(stack, csv)
              ELSE LET entry == Tuple(<<WorkbookObj(path.s), path>>)
                   IN  Returned(entry, Append(stack, entry), csv)

\* a read that takes the workbook opened first
StackTop_First(stack) == stack[1]
\* _WORKBOOK_STACK[-1]
StackTop(stack) == stack[Len(stack)]

excel_read_table(args, stack, csv, has_openpyxl) ==
    IF ~HasArgs(args, {"sheet"}) THEN Raised(stack, csv)
    ELSE IF stack = <<>>
         THEN IF has_openpyxl THEN Raised(stack, csv)
              ELSE Returned(List(<<>>), stack, csv)
    ELSE LET wb == StackTop(stack) IN
         IF ~has_openpyxl THEN Returned(List(<<>>), stack, csv)
         ELSE IF wb.t # "tuple" THEN Returned(List(<<>>), stack, csv)
         ELSE IF ~StrEq(args.kv["sheet"], "Data") THEN Raised(stack, csv)
         ELSE Returned(List(SheetRows(wb.xs[1].file)), stack, csv)

excel_export(args, stack, csv, has_openpyxl) ==
    IF ~HasArgs(args, {"source", "path"}) THEN Raised(stack, csv)
    ELSE LET source == args.kv["source"]
             path == args.kv["path"]
         IN  IF ~Truthy(source) \/ ~IsList(source) THEN Returned(None, stack, csv)
             ELSE IF StrEq(path, "out.csv")
             THEN IF IsDict(source.xs[1])
                  THEN Returned(None, stack, source.xs)
                  ELSE Returned(None, stack, <<>>)
             ELSE IF ~has_openpyxl THEN Raised(stack, csv)
             ELSE Returned(None, stack, csv)

\* the required parameters of the web tools; all of them `pass`
WebRequired(op) ==
    CASE op = "web.use_system" -> {"name", "version"}
      [] op = "web.login" -> {"credential"}
      [] op = "web.logout" -> {}
      [] op = "web.goto_page" -> {"page"}
      [] op = "web.enter" -> {"field", "value"}
      [] op = "web.click" -> {"element"}
      [] op = "web.extract" -> {"selector"}

WebOps == {"web.use_system", "web.login", "web.logout", "web.goto_page",
           "web.enter", "web.click", "web.extract"}

\* the keys of TOOLS
TOOLS == {"excel.open_workbook", "excel.read_table", "excel.export"} \cup WebOps
         \cup {"set_var", "call_result", "table.add_column", "table.filter",
               "control.for_each"}

\* TOOLS[op](**args)
CallTool(op, args, stack, csv, has_openpyxl) ==
    CASE op = "excel.open_workbook" -> excel_open_workbook(args, stack, csv, has_openpyxl)
      [] op = "excel.read_table" -> excel_read_table(args, stack, csv, has_openpyxl)
      [] op = "excel.export" -> excel_export(args, stack, csv, has_openpyxl)
      [] op \in WebOps ->
            IF ~HasArgs(args, WebRequired(op)) THEN Raised(stack, csv)
            ELSE Returned(IF op = "web.extract" THEN Str("") ELSE None, stack, csv)
      [] op = "set_var" -> Returned(Get(args, "value"), stack, csv)
      [] op = "call_result" -> Returned(None, stack, csv)
      [] op = "table.add_column" -> Returned(None, stack, csv)
      [] op = "table.filter" -> Returned(None, stack, csv)
      [] op = "control.for_each" -> Returned(None, stack, csv)

----------------------------------------------------------------------------
(* tools/excel.py: table_filter and its helpers *)

\* the strings float() accepts, with their value (in tenths)
NumericStrings == [s \in {"0", "2", "50"} |-> CASE s = "0" -> 0 [] s = "2" -> 20 [] s = "50" -> 500]

\* float(x): ok is FALSE where Python raises TypeError or ValueError
FloatOf(x) ==
    CASE x.t = "int" -> [ok |-> TRUE, n |-> x.n]
      [] x.t = "bool" -> [ok |-> TRUE, n |-> IF x.b THEN 10 ELSE 0]
      [] x.t = "str" /\ x.s \in DOMAIN NumericStrings -> [ok |-> TRUE, n |-> NumericStrings[x.s]]
      [] OTHER -> [ok |-> FALSE, n |-> 0]

_numeric_value(v) ==
    IF v = None THEN [ok |-> TRUE, n |-> 0]
    ELSE IF v.t \in {"int", "bool"} THEN FloatOf(v)
    ELSE IF IsDict(v) /\ "amount" \in DOMAIN v.kv THEN FloatOf(v.kv["amount"])
    ELSE IF IsDict(v) /\ "value" \in DOMAIN v.kv THEN FloatOf(v.kv["value"])
    ELSE IF FloatOf(v).ok THEN FloatOf(v) ELSE [ok |-> TRUE, n |-> 0]

_is_numeric(v) ==
    IF v = None THEN FALSE
    ELSE IF v.t \in {"int", "bool"} THEN TRUE
    ELSE IF IsDict(v) /\ ("amount" \in DOMAIN v.kv \/ "value" \in DOMAIN v.kv) THEN TRUE
    ELSE IF IsStr(v) THEN FloatOf(v).ok
    ELSE FALSE

_truthy(v) ==
    IF v = None THEN FALSE
    ELSE IF v.t = "bool" THEN v.b
    ELSE IF v.t = "int" THEN v.n # 0
    ELSE IF IsStr(v) THEN v.s \notin {"", " "}
    ELSE TRUE

\* a == b for Python values (True == 1, False == 0)
PyEq(a, b) ==
    IF a.t \in {"int", "bool"} /\ b.t \in {"int", "bool"}
    THEN FloatOf(a).n = FloatOf(b).n
    ELSE a = b

\* does the loop body of table_filter append this row; raises where
\* _numeric_value raises
FilterKeeps(row, field, op, right_raw) ==
    LET val == IF IsStr(field) THEN Get(row, field.s) ELSE None
        l == _numeric_value(val).n
        r == _numeric_value(right_raw).n
        numeq == _is_numeric(val) /\ _is_numeric(right_raw) /\ l = r
    IN  CASE StrEq(op, ">") -> l > r
          [] StrEq(op, ">=") -> l >= r
          [] StrEq(op, "<") -> l < r
          [] StrEq(op, "<=") -> l <= r
          [] StrEq(op, "=") -> PyEq(val, right_raw) \/ numeq
          [] StrEq(op, "!=") -> ~PyEq(val, right_raw) /\ ~numeq
          [] OTHER -> TRUE

FilterRaises(row, field, op, right_raw) ==
    LET val == IF IsStr(field) THEN Get(row, field.s) ELSE None
    IN  \/ /\ op.t = "str" /\ op.s \in {">", ">=", "<", "<="}
           /\ ~_numeric_value(val).ok \/ ~_numeric_value(right_raw).ok
        \/ /\ op.t = "str" /\ op.s \in {"=", "!="}
           /\ ~PyEq(val, right_raw)
           /\ _is_numeric(val) /\ _is_numeric(right_raw)
           /\ ~_numeric_value(val).ok \/ ~_numeric_value(right_raw).ok

\* table_filter(table, condition): the returned value, ok FALSE where it raises
table_filter(table, condition) ==
    LET same == [ok |-> TRUE, ret |-> table] IN
    IF ~IsList(table) \/ ~Truthy(table) THEN same
    ELSE IF ~Truthy(condition) \/ ~IsDict(condition) THEN same
    ELSE IF StrEq(Get(condition, "type"), "not")
    THEN LET inner == Get(condition, "expr") IN
         IF ~IsDict(inner) THEN same
         ELSE LET field ==
                    IF StrEq(Get(inner, "type"), "qualified") /\ Truthy(Get(inner, "field"))
                    THEN Get(inner, "field")
                    ELSE IF StrEq(Get(inner, "type"), "ref") /\ Truthy(Get(inner, "name"))
                    THEN Get(inner, "name")
                    ELSE None
                  Keep(row) == IsDict(row) /\ ~_truthy(IF IsStr(field) THEN Get(row, field.s) ELSE None)
              IN  IF field = None THEN same
                  ELSE [ok |-> TRUE, ret |-> List(SelectSeq(table.xs, Keep))]
    ELSE IF ~StrEq(Get(condition, "type"), "comparison") THEN same
    ELSE LET left == Get(condition, "left")
             op == Get(condition, "op")
             right == Get(condition, "right")
         IN  IF op = None \/ left = None THEN same
             ELSE IF ~(IsDict(left) /\ StrEq(Get(left, "type"), "qualified")) THEN same
             ELSE LET field == Get(left, "field")
                      right_raw ==
                        IF IsDict(right)
                        THEN IF StrEq(Get(right, "type"), "string") THEN Get(right, "value")
                             ELSE IF StrEq(Get(right, "type"), "number") THEN Get(right, "value")
                             ELSE IF StrEq(Get(right, "type"), "money") THEN Get(right, "amount")
                             ELSE GetOr(right, "value", right)
                        ELSE right
                      Keep(row) == IsDict(row) /\ FilterKeeps(row, field, op, right_raw)
                  IN  IF \E i \in 1..Len(table.xs) :
                            IsDict(table.xs[i]) /\ FilterRaises(table.xs[i], field, op, right_raw)
                      THEN [ok |-> FALSE, ret |-> None]
                      ELSE [ok |-> TRUE, ret |-> List(SelectSeq(table.xs, Keep))]

----------------------------------------------------------------------------
(* The IR programs handed to run() *)

\* collection literal of the for_each test
TwoRows == List(<<Dict([A |-> PyInt(1), B |-> PyInt(10)]), Dict([A |-> PyInt(2), B |-> PyInt(20)])>>)

BalanceOver(right) == Comparison(Qualified("T", "Balance"), ">", right)

ForEachStep(id, var, coll, bodySteps) ==
    IRStep(id, "control.for_each",
           Dict([var |-> Str(var), collection |-> coll, body |-> List(bodySteps)]), None)

SetVarArgs(name, value) == Dict([name |-> Str(name), value |-> value])

\* the steps programs are built from; id is the id the step gets
StepPool == 1..15
Template(k, id) ==
    CASE k = 1 -> IRStep(id, "excel.open_workbook", Dict([path |-> Str("a.xlsx")]), None)
      [] k = 2 -> IRStep(id, "excel.open_workbook", Dict([path |-> Str("b.xlsx")]), None)
      [] k = 3 -> IRStep(id, "excel.read_table",
                         Dict([sheet |-> Str("Data"), range |-> Str("A1C4")]), Str("T"))
      [] k = 4 -> IRStep(id, "set_var", SetVarArgs("x", PyInt(10)), Str("x"))
      [] k = 5 -> IRStep(id, "set_var", SetVarArgs("y", Ref("x")), Str("y"))
      [] k = 6 -> IRStep(id, "table.filter",
                         Dict([table |-> Str("T"), condition |-> BalanceOver(Ref("x"))]), Str("T"))
      [] k = 7 -> IRStep(id, "excel.export",
                         Dict([source |-> Str("T"), path |-> Str("out.csv")]), None)
      [] k = 8 -> ForEachStep(id, "row", TwoRows,
                    <<BodyStep(id \o "a", "set_var", SetVarArgs("v", Qualified("row", "B")), Str("v"))>>)
      [] k = 9 -> ForEachStep(id, "item", Ref("T"),
                    <<BodyStep(id \o "a", "set_var", SetVarArgs("x", Qualified("item", "Balance")), Str("x")),
                      BodyStep(id \o "b", "set_var", SetVarArgs("y", Ref("x")), Str("y"))>>)
      [] k = 10 -> ForEachStep(id, "row", List(<<>>),
                    <<BodyStep(id \o "a", "set_var", SetVarArgs("v", Qualified("row", "B")), Str("v"))>>)
      [] k = 11 -> IRStep(id, "table.sort",
                          Dict([table |-> Str("T"), by |-> Qualified("T", "Balance"),
                                ascending |-> Bool(TRUE)]), Str("T"))
      [] k = 12 -> IRStep(id, "set_var", SetVarArgs("item", NumberNode(5)), Str("item"))
      [] k = 13 -> IRStep(id, "call_result", Dict([name |-> Str("x")]), Str("x"))
      [] k = 14 -> ForEachStep(id, "row", TwoRows,
                    <<BodyStep(id \o "a", "control.for_each",
                        Dict([var |-> Str("inner"), collection |-> TwoRows,
                              body |-> List(<<BodyStep(id \o "b", "set_var",
                                                SetVarArgs("w", Qualified("inner", "A")), Str("w"))>>)]),
                        None),
                      BodyStep(id \o "c", "table.sort", Dict([table |-> Str("T")]), None)>>)
      [] k = 15 -> IRStep(id, "control.for_each",
                          Dict([var |-> Str("row"), collection |-> TwoRows]), None)

\* longer programs: the pipelines of the tests and of the documented scenarios
Scenarios ==
    { <<1, 3, 6, 7>>, <<1, 3, 2, 3>>, <<1, 3, 4, 9, 5>>, <<1, 3, 12, 9>>,
      <<4, 5>>, <<4, 11, 5>>, <<8, 4>> }

StepIds == <<"1", "2", "3", "4", "5", "6">>

ProgramShapes ==
    Scenarios \cup UNION { [1..n -> StepPool] : n \in 0..MaxSteps }

\* IRProgram(steps=[...]) with the ids in program order
Program(shape) == [i \in 1..Len(shape) |-> Template(shape[i], StepIds[i])]

----------------------------------------------------------------------------
(* State *)

VARIABLES
    openpyxl,         \* is the optional openpyxl import available (excel.py 7-10)
    WORKBOOK_STACK,   \* excel.py _WORKBOOK_STACK, process-wide
    csv_out,          \* the rows last written to out.csv
    runs,             \* run() calls made so far
    pc,               \* "idle", "top" (the for over ir.steps), "loop" (the loops
                      \* of a for_each), "returned", "raised"
    ir,               \* run(): ir.steps
    dry_run,          \* run(): dry_run
    env,              \* run(): env
    trace,            \* run(): trace
    idx,              \* run(): position of `step` in ir.steps
    collection,       \* run(): collection
    var,              \* run(): var
    body,             \* run(): body
    row_i,            \* run(): position of `row` in collection (0 before the first)
    body_i,           \* run(): position of `body_step` in body
    returned,         \* what the caller of run() got
    calls,            \* history: the tool handlers invoked by this run, in order
    hist,             \* history: the previous run, kept when the same ir is run again
    stack_before,     \* history: _WORKBOOK_STACK when this run was entered
    last_opened,      \* history: the path of the last workbook opened, "" if none
    stage,            \* front end: "idle", "lex" (inside tokenize), "lexed", "parsed",
                      \* "checked", "lowered", "failed"
    source,           \* tokenize(): source, a sequence of characters
    lexer,            \* tokenize(): its locals i, line_no, col, indent_stack, tokens
    parsed,           \* what Parser(tokens).parse_program() did
    program,          \* the Program given to check() and lower()
    checked,          \* what check(program) did
    lowered,          \* lower(program).steps
    tool,             \* a tool handler called on its own: its name and arguments
    tool_ret          \* what that handler did

frontVars == <<stage, source, lexer, parsed, program, checked, lowered>>
toolVars == <<tool, tool_ret>>

vars == <<openpyxl, WORKBOOK_STACK, csv_out, runs, pc, ir, dry_run, env, trace, idx,
          collection, var, body, row_i, body_i, returned, calls, hist,
          stack_before, last_opened, frontVars, toolVars>>

globals == <<openpyxl, WORKBOOK_STACK, csv_out>>
loopVars == <<collection, var, body, row_i, body_i>>

NoHist == [set |-> FALSE, dry_run |-> FALSE, trace |-> <<>>, calls |-> <<>>]
NothingReturned == [kind |-> "none", trace |-> <<>>]

\* tokenize(): i = 0, line_no = 1, col = 0, indent_stack = [0], tokens = []
LexerStart == [i |-> 0, line_no |-> 1, col |-> 0, indent_stack |-> <<0>>, tokens |-> <<>>,
               error |-> ""]
\* parse() or check() has not been called
NotDone == [done |-> FALSE]

\* the front end is not in use
FrontIdle ==
    /\ stage = "idle"
    /\ source = <<>>
    /\ lexer = LexerStart
    /\ parsed = NotDone
    /\ program = <<>>
    /\ checked = NotDone
    /\ lowered = <<>>

\* no handler is called on its own
ToolIdle ==
    /\ tool = [op |-> ""]
    /\ tool_ret = NotDone

\* no run() has been called in this process
RunIdle(has_openpyxl) ==
    /\ openpyxl = has_openpyxl
    /\ WORKBOOK_STACK = <<>>
    /\ csv_out = <<>>
    /\ runs = 0
    /\ pc = "idle"
    /\ ir = <<>>
    /\ dry_run = FALSE
    /\ env = EmptyEnv
    /\ trace = <<>>
    /\ idx = 0
    /\ collection = <<>>
    /\ var = ""
    /\ body = <<>>
    /\ row_i = 0
    /\ body_i = 0
    /\ returned = NothingReturned
    /\ calls = <<>>
    /\ hist = NoHist
    /\ stack_before = <<>>
    /\ last_opened = ""

Init == (\E has_openpyxl \in BOOLEAN : RunIdle(has_openpyxl)) /\ FrontIdle /\ ToolIdle

----------------------------------------------------------------------------
(* interpreter.py: run and _run_one_step *)

TraceEntry(id, op, args, result) == [id |-> id, op |-> op, args |-> args, result |-> result]
DryEntry(id, op, args) == [id |-> id, op |-> op, args |-> args, dry_run |-> TRUE]
\* a tool call: top, row, step are the positions of step, row and body_step
\* at the call, of is len(collection)
CallEntry(id, op, args, top, row, step, of) ==
    [id |-> id, op |-> op, args |-> args, top |-> top, row |-> row, step |-> step, of |-> of]

\* a log that loses its entries
Logged_Dropped(tr, entry) == tr
\* trace.append(entry)
Logged(tr, entry) == Append(tr, entry)

\* a failure that hands the partial trace to the caller
Raise_ReturnsTrace ==
    /\ pc' = "raised"
    /\ returned' = [kind |-> "trace", trace |-> trace]
\* an exception leaves run(): nothing is returned to the caller.  The
\* variable trace keeps the entries appended up to the raise.
Raise ==
    /\ pc' = "raised"
    /\ returned' = [kind |-> "exception", trace |-> <<>>]

\* run(ir, dry_run) is entered: trace = [], env = {}
EnterRun(steps, dry) ==
    /\ runs < MaxRuns
    /\ runs' = runs + 1
    /\ ir' = steps
    /\ dry_run' = dry
    /\ env' = EmptyEnv
    /\ trace' = <<>>
    /\ calls' = <<>>
    /\ idx' = 1
    /\ pc' = "top"
    /\ returned' = NothingReturned
    /\ collection' = <<>> /\ var' = "" /\ body' = <<>> /\ row_i' = 0 /\ body_i' = 0
    /\ stack_before' = WORKBOOK_STACK
    /\ UNCHANGED <<globals, last_opened, frontVars, toolVars>>

\* the caller calls run on a program
StartRun(shape, dry) ==
    /\ pc = "idle"
    /\ EnterRun(Program(shape), dry)
    /\ hist' = NoHist

\* the caller calls run once more on the program whose trace it holds
Rerun(dry) ==
    /\ pc = "returned"
    /\ EnterRun(ir, dry)
    /\ hist' = [set |-> TRUE, dry_run |-> dry_run, trace |-> trace, calls |-> calls]

\* the caller drops what the last run gave it; only the module state of
\* the tools stays
Discard ==
    /\ pc \in {"returned", "raised"}
    /\ pc' = "idle"
    /\ ir' = <<>>
    /\ dry_run' = FALSE
    /\ env' = EmptyEnv
    /\ trace' = <<>>
    /\ calls' = <<>>
    /\ idx' = 0
    /\ returned' = NothingReturned
    /\ hist' = NoHist
    /\ stack_before' = <<>>
    /\ UNCHANGED <<globals, runs, loopVars, last_opened, frontVars, toolVars>>

\* a loop that passes over every second element
NextIndex_Skip(i) == i + 2
\* the step of the three `for x in xs` loops: the element after position i
NextIndex(i) == i + 1

\* fn = TOOLS.get(op) ... trace.append(...): shared by run and _run_one_step
Dispatch(id, op, args, result_name) ==
    IF op \notin TOOLS
    THEN /\ Raise
         /\ UNCHANGED <<WORKBOOK_STACK, csv_out, env, trace, calls, last_opened>>
    ELSE LET res == CallTool(op, args, WORKBOOK_STACK, csv_out, openpyxl) IN
         /\ calls' = Append(calls, CallEntry(id, op, args, idx, row_i, body_i, Len(collection)))
         /\ WORKBOOK_STACK' = res.stack
         /\ csv_out' = res.csv
         /\ last_opened' = IF op = "excel.open_workbook" /\ ~res.raised
                           THEN args.kv["path"].s ELSE last_opened
         /\ IF res.raised
            THEN /\ Raise
                 /\ UNCHANGED <<env, trace>>
            ELSE /\ env' = IF Truthy(result_name) THEN SetEnv(env, result_name.s, res.ret) ELSE env
                 /\ trace' = Logged(trace, TraceEntry(id, op, args, res.ret))
                 /\ UNCHANGED <<pc, returned>>

\* one pass of `for step in ir.steps` for a step that is not a for_each
RunStep ==
    /\ pc = "top"
    /\ idx <= Len(ir)
    /\ ir[idx].op # "control.for_each"
    /\ LET step == ir[idx]
           args == ResolveTableByName(step.op, _resolve_refs(step.args, env), env)
       IN  IF dry_run
           THEN /\ trace' = Logged(trace, DryEntry(step.id, step.op, args))
                /\ idx' = NextIndex(idx)
                /\ UNCHANGED <<WORKBOOK_STACK, csv_out, env, calls, pc, returned, last_opened>>
           ELSE /\ Dispatch(step.id, step.op, args, step.result)
                /\ idx' = IF pc' = "raised" THEN idx ELSE NextIndex(idx)
    /\ UNCHANGED <<openpyxl, runs, ir, dry_run, loopVars, hist, stack_before, frontVars, toolVars>>

\* one pass of `for step in ir.steps` for a for_each, up to the loop over
\* the collection
ForEach ==
    /\ pc = "top"
    /\ idx <= Len(ir)
    /\ ir[idx].op = "control.for_each"
    /\ LET step == ir[idx]
           args == _resolve_refs(step.args, env)
           coll == Get(args, "collection")
           v == GetOr(args, "var", Str("row"))
           b == IF Truthy(Get(args, "body")) THEN Get(args, "body") ELSE List(<<>>)
       IN  IF dry_run
           THEN /\ trace' = Logged(trace, DryEntry(step.id, step.op,
                        Dict([k \in DOMAIN args.kv \cup {"body"} |->
                                 IF k = "body" THEN b ELSE args.kv[k]])))
                /\ idx' = NextIndex(idx)
                /\ UNCHANGED <<pc, returned, loopVars>>
           ELSE IF ~IsList(coll)
           THEN /\ Raise
                /\ UNCHANGED <<trace, idx, loopVars>>
           ELSE /\ pc' = "loop"
                /\ collection' = coll.xs
                /\ var' = v.s
                /\ body' = b.xs
                /\ row_i' = 0
                /\ body_i' = 0
                /\ UNCHANGED <<trace, idx, returned>>
    /\ UNCHANGED <<globals, runs, ir, dry_run, env, calls, hist, stack_before, last_opened,
                   frontVars, toolVars>>

\* `for row in collection`: bind the next row, or leave the loop and pop var
NextRow ==
    /\ pc = "loop"
    /\ row_i = 0 \/ body_i > Len(body)
    /\ IF NextIndex(row_i) <= Len(collection)
       THEN /\ row_i' = NextIndex(row_i)
            /\ env' = SetEnv(env, var, IF IsDict(collection[NextIndex(row_i)])
                                        THEN collection[NextIndex(row_i)] ELSE EmptyDict)
            /\ body_i' = NextIndex(0)
            /\ UNCHANGED <<pc, idx, collection, var, body>>
       ELSE /\ env' = PopEnv(env, var)
            /\ pc' = "top"
            /\ idx' = NextIndex(idx)
            /\ collection' = <<>> /\ var' = "" /\ body' = <<>> /\ row_i' = 0 /\ body_i' = 0
    /\ UNCHANGED <<globals, runs, ir, dry_run, trace, returned, calls, hist, stack_before,
                   last_opened, frontVars, toolVars>>

\* _run_one_step(body_step, env, trace, dry_run=False)
_run_one_step ==
    /\ pc = "loop"
    /\ row_i >= 1
    /\ body_i <= Len(body)
    /\ LET step == body[body_i]
           step_id == GetOr(step, "id", Str("")).s
           op == GetOr(step, "op", Str("")).s
           step_args == GetOr(step, "args", EmptyDict)
           result_name == Get(step, "result")
           args == ResolveTableByName(op, _resolve_refs(step_args, env), env)
       IN  /\ Dispatch(step_id, op, args, result_name)
           /\ body_i' = IF pc' = "raised" THEN body_i ELSE NextIndex(body_i)
    /\ UNCHANGED <<openpyxl, runs, ir, dry_run, idx, collection, var, body, row_i, hist,
                   stack_before, frontVars, toolVars>>

\* `return trace`
Return ==
    /\ pc = "top"
    /\ idx > Len(ir)
    /\ pc' = "returned"
    /\ returned' = [kind |-> "trace", trace |-> trace]
    /\ UNCHANGED <<globals, runs, ir, dry_run, env, trace, idx, loopVars, calls, hist,
                   stack_before, last_opened, frontVars, toolVars>>

Next ==
    \/ \E shape \in ProgramShapes, dry \in BOOLEAN : StartRun(shape, dry)
    \/ \E dry \in BOOLEAN : Rerun(dry)
    \/ Discard
    \/ RunStep
    \/ ForEach
    \/ NextRow
    \/ _run_one_step
    \/ Return

Spec == Init /\ [][Next]_vars

TypeOK ==
    /\ pc \in {"idle", "top", "loop", "returned", "raised"}
    /\ runs \in 0..MaxRuns
    /\ idx \in 0..(Len(ir) + 1)

----------------------------------------------------------------------------
(* ast_nodes.py: a node is a record; the field node names its class, the  *)
(* other fields are those of the dataclass.  loc is None or a SourceLoc.   *)
(* Str fields are strings; the value of a literal is a Python value.       *)

SourceLoc(line, column) == [line |-> line, column |-> column]

\* an instance of the dataclass `class` with the fields given and loc
Node(class, fields, loc) ==
    [n \in DOMAIN fields \cup {"node", "loc"} |->
        IF n = "node" THEN class ELSE IF n = "loc" THEN loc ELSE fields[n]]

\* isinstance(v, Expr): v is of a subclass of Expr
IsExpr(v) ==
    /\ "node" \in DOMAIN v
    /\ v.node \in {"NumberLit", "StringLit", "MoneyLit", "DateLit", "Identifier",
                   "QualifiedRef", "BinaryExpr", "Comparison", "FunctionCall"}

----------------------------------------------------------------------------
(* type_checker.py: check *)

\* raise TypeCheckError(f"{name!r} is not defined. ...", line, column, path)
TypeCheckError(name, loc) ==
    [raised |-> TRUE, error |-> "TypeCheckError", name |-> name,
     message |-> "is not defined", loc |-> loc]
\* the call returned without raising
NoError == [raised |-> FALSE]
\* check_statement returned; symbols_here is the dict it was given, as it is now
Passed(symbols_here) == [raised |-> FALSE, symbols_here |-> symbols_here]

\* symbols_here[name] = kind
Declare(symbols_here, name, kind) ==
    [n \in DOMAIN symbols_here \cup {name} |-> IF n = name THEN kind ELSE symbols_here[n]]

\* an ensure_declared that lets every name pass
ensure_declared_Lenient(name, loc, symbols) == NoError
\* ensure_declared is a closure over `symbols`, the dict made by check():
\* that dict is what it looks the name up in, from whatever scope it is called
ensure_declared(name, loc, symbols) ==
    IF name \notin DOMAIN symbols THEN TypeCheckError(name, loc) ELSE NoError

RECURSIVE check_expr(_, _, _, _)
check_expr(expr, symbols_here, allow_undeclared, symbols) ==
    CASE expr.node = "Identifier" ->
            IF ~allow_undeclared THEN ensure_declared(expr.name, expr.loc, symbols)
            ELSE NoError
      [] expr.node = "QualifiedRef" ->
            IF expr.base # "row" THEN ensure_declared(expr.base, expr.loc, symbols)
            ELSE NoError
      [] expr.node \in {"Comparison", "BinaryExpr"} ->
            LET l == check_expr(expr.left, symbols_here, allow_undeclared, symbols)
            IN  IF l.raised THEN l
                ELSE check_expr(expr.right, symbols_here, allow_undeclared, symbols)
      [] expr.node = "NotExpr" ->
            check_expr(expr.expr, symbols_here, allow_undeclared, symbols)
      [] OTHER -> NoError

\* a body_symbols that is the enclosing dict itself, not a copy of it
ChildScope_Shared(symbols_here, v, is_symbols) ==
    [here |-> Declare(symbols_here, v, "row"), is_symbols |-> is_symbols, leaks |-> TRUE]
\* body_symbols = dict(symbols_here); body_symbols[stmt.var] = "row".  The copy
\* is a dict of its own: it is not `symbols`, and what the body adds to it
\* is gone when the loop has been checked.
ChildScope(symbols_here, v, is_symbols) ==
    [here |-> Declare(symbols_here, v, "row"), is_symbols |-> FALSE, leaks |-> FALSE]

RECURSIVE check_statement(_, _, _, _)
RECURSIVE check_statements(_, _, _, _, _)

\* check_statement(stmt, symbols_here), with `symbols` of the enclosing
\* check(); is_symbols says that symbols_here is that very dict
check_statement(stmt, symbols_here, symbols, is_symbols) ==
    CASE stmt.node = "TreatRangeAsTable" ->
            Passed(Declare(symbols_here, stmt.table_name, "table"))
      [] stmt.node = "SetVar" ->
            LET e == check_expr(stmt.value, symbols_here, FALSE, symbols)
            IN  IF e.raised THEN e ELSE Passed(Declare(symbols_here, stmt.name, "any"))
      [] stmt.node = "AddColumn" ->
            LET d == ensure_declared(stmt.table, stmt.loc, symbols)
                e == check_expr(stmt.expr, symbols_here, FALSE, symbols)
            IN  IF d.raised THEN d ELSE IF e.raised THEN e ELSE Passed(symbols_here)
      [] stmt.node = "FilterTable" ->
            LET d == ensure_declared(stmt.table, stmt.loc, symbols)
                e == check_expr(stmt.condition, symbols_here, TRUE, symbols)
            IN  IF d.raised THEN d ELSE IF e.raised THEN e ELSE Passed(symbols_here)
      [] stmt.node = "SortTable" ->
            LET d == ensure_declared(stmt.table, stmt.loc, symbols)
                e == check_expr(stmt.by, symbols_here, FALSE, symbols)
            IN  IF d.raised THEN d ELSE IF e.raised THEN e ELSE Passed(symbols_here)
      [] stmt.node = "ExportTable" ->
            LET e == check_expr(stmt.source, symbols_here, FALSE, symbols)
            IN  IF e.raised THEN e ELSE Passed(symbols_here)
      [] stmt.node = "ForEach" ->
            LET e == check_expr(stmt.collection, symbols_here, FALSE, symbols)
                scope == ChildScope(symbols_here, stmt.var, is_symbols)
                b == check_statements(stmt.body, 1, scope.here,
                                      IF scope.is_symbols THEN scope.here ELSE symbols,
                                      scope.is_symbols)
            IN  IF e.raised THEN e
                ELSE IF b.raised THEN b
                ELSE Passed(IF scope.leaks THEN b.symbols_here ELSE symbols_here)
      [] OTHER ->
            LET v == IF "value" \in DOMAIN stmt /\ IsExpr(stmt.value)
                     THEN check_expr(stmt.value, symbols_here, FALSE, symbols)
                     ELSE NoError
                c == IF "condition" \in DOMAIN stmt /\ IsExpr(stmt.condition)
                     THEN check_expr(stmt.condition, symbols_here, FALSE, symbols)
                     ELSE NoError
            IN  IF v.raised THEN v ELSE IF c.raised THEN c ELSE Passed(symbols_here)

\* `for s in stmts: check_statement(s, symbols_here)` from position k on.  At
\* the top level symbols_here is `symbols` itself, so what a statement adds to
\* it is seen by ensure_declared; in a body it is the copy.
check_statements(stmts, k, symbols_here, symbols, is_symbols) ==
    IF k > Len(stmts) THEN Passed(symbols_here)
    ELSE LET r == check_statement(stmts[k], symbols_here, symbols, is_symbols)
         IN  IF r.raised THEN r
             ELSE check_statements(stmts, k + 1, r.symbols_here,
                                   IF is_symbols THEN r.symbols_here ELSE symbols,
                                   is_symbols)

\* check(program): symbols = {}, then every statement of the program
check(prog) == check_statements(prog, 1, <<>>, <<>>, TRUE)

----------------------------------------------------------------------------
(* lowering.py: lower, _stmt_to_step, _expr_to_arg *)

\* str(d) for a digit d
DigitChar(d) ==
    CASE d = 0 -> "0" [] d = 1 -> "1" [] d = 2 -> "2" [] d = 3 -> "3" [] d = 4 -> "4"
      [] d = 5 -> "5" [] d = 6 -> "6" [] d = 7 -> "7" [] d = 8 -> "8" [] d = 9 -> "9"

\* str(n) for n >= 0
RECURSIVE Decimal(_)
Decimal(n) == IF n < 10 THEN DigitChar(n) ELSE Decimal(n \div 10) \o DigitChar(n % 10)

\* f"step_{index:03d}": at least three digits, zero-padded
StepId(index) ==
    "step_" \o (IF index < 10 THEN "00" ELSE IF index < 100 THEN "0" ELSE "")
            \o Decimal(index)

\* _expr_to_arg(expr)
_expr_to_arg(expr) ==
    CASE expr.node = "NumberLit" -> Dict([type |-> Str("number"), value |-> expr.value])
      [] expr.node = "StringLit" -> Dict([type |-> Str("string"), value |-> expr.value])
      [] expr.node = "MoneyLit" ->
            Dict([type |-> Str("money"), currency |-> expr.currency, amount |-> expr.amount])
      [] expr.node = "DateLit" -> Dict([type |-> Str("date"), value |-> expr.value])
      [] expr.node = "Identifier" -> Dict([type |-> Str("ref"), name |-> Str(expr.name)])
      [] expr.node = "QualifiedRef" ->
            Dict([type |-> Str("qualified"), base |-> Str(expr.base),
                  field |-> Str(expr.field)])
      [] OTHER -> Dict([type |-> Str("unknown")])

\* IRStep(..., result_type="table")
TableStep(id, op, args, result) == [IRStep(id, op, args, result) EXCEPT !.result_type = Str("table")]

\* {"id": sub.id, "op": sub.op, "args": sub.args, "result": sub.result,
\*  "type": sub.result_type}
BodyDict(sub) ==
    Dict([id |-> Str(sub.id), op |-> Str(sub.op), args |-> sub.args,
          result |-> sub.result, type |-> sub.result_type])

\* a loop body numbered from a counter of its own
BodyCounter_Fresh(counter) == 0
\* ctr = counter or [0]: lower always passes its one-element list, which is
\* truthy, so ctr is that list and the body goes on counting in it
BodyCounter(counter) == counter

\* what _stmt_to_step gives back: the step (None for no step) and the value
\* the shared counter holds afterwards
Lowered(step, counter) == [step |-> step, counter |-> counter]

RECURSIVE _stmt_to_step(_, _, _)
RECURSIVE LowerBody(_, _, _, _)

\* `for s in stmt.body: ctr[0] += 1; sub = _stmt_to_step(s, ctr[0], ctr); ...`
\* from position k on, body_steps being the dicts collected so far
LowerBody(stmts, k, ctr, body_steps) ==
    IF k > Len(stmts) THEN [body_steps |-> body_steps, counter |-> ctr]
    ELSE LET sub == _stmt_to_step(stmts[k], ctr + 1, ctr + 1)
         IN  LowerBody(stmts, k + 1, sub.counter,
                       IF sub.step = None THEN body_steps
                       ELSE Append(body_steps, BodyDict(sub.step)))

_stmt_to_step(stmt, index, counter) ==
    LET step_id == StepId(index) IN
    CASE stmt.node = "OpenWorkbook" ->
            Lowered(IRStep(step_id, "excel.open_workbook", Dict([path |-> Str(stmt.path)]),
                           None), counter)
      [] stmt.node = "TreatRangeAsTable" ->
            Lowered(TableStep(step_id, "excel.read_table",
                              Dict([sheet |-> Str(stmt.sheet), range |-> Str(stmt.range_spec)]),
                              Str(stmt.table_name)), counter)
      [] stmt.node = "SetVar" ->
            Lowered(IRStep(step_id, "set_var",
                           Dict([name |-> Str(stmt.name), value |-> _expr_to_arg(stmt.value)]),
                           Str(stmt.name)), counter)
      [] stmt.node = "AddColumn" ->
            Lowered(TableStep(step_id, "table.add_column",
                              Dict([table |-> Str(stmt.table), name |-> Str(stmt.name),
                                    expr |-> _expr_to_arg(stmt.expr)]),
                              Str(stmt.table)), counter)
      [] stmt.node = "FilterTable" ->
            Lowered(TableStep(step_id, "table.filter",
                              Dict([table |-> Str(stmt.table),
                                    condition |-> _expr_to_arg(stmt.condition)]),
                              Str(stmt.table)), counter)
      [] stmt.node = "ExportTable" ->
            Lowered(IRStep(step_id, "excel.export",
                           Dict([source |-> _expr_to_arg(stmt.source), path |-> Str(stmt.path)]),
                           None), counter)
      [] stmt.node = "CallResult" ->
            Lowered(IRStep(step_id, "call_result", Dict([name |-> Str(stmt.name)]),
                           Str(stmt.name)), counter)
      [] stmt.node = "UseSystem" ->
            Lowered(IRStep(step_id, "web.use_system",
                           Dict([name |-> Str(stmt.name), version |-> Str(stmt.version)]),
                           None), counter)
      [] stmt.node = "LogIn" ->
            Lowered(IRStep(step_id, "web.login", Dict([credential |-> Str(stmt.credential)]),
                           None), counter)
      [] stmt.node = "LogOut" -> Lowered(IRStep(step_id, "web.logout", EmptyDict, None), counter)
      [] stmt.node = "GoToPage" ->
            Lowered(IRStep(step_id, "web.goto_page", Dict([page |-> Str(stmt.page)]), None),
                    counter)
      [] stmt.node = "EnterField" ->
            Lowered(IRStep(step_id, "web.enter",
                           Dict([field |-> Str(stmt.field_id),
                                 value |-> _expr_to_arg(stmt.value)]),
                           None), counter)
      [] stmt.node = "ClickElement" ->
            Lowered(IRStep(step_id, "web.click", Dict([element |-> Str(stmt.element_id)]),
                           None), counter)
      [] stmt.node = "ExtractField" ->
            Lowered(IRStep(step_id, "web.extract", Dict([selector |-> Str(stmt.selector)]),
                           Str(stmt.var_name)), counter)
      [] stmt.node = "ForEach" ->
            LET b == LowerBody(stmt.body, 1, BodyCounter(counter), <<>>)
            IN  Lowered(IRStep(step_id, "control.for_each",
                               Dict([var |-> Str(stmt.var),
                                     collection |-> _expr_to_arg(stmt.collection),
                                     body |-> List(b.body_steps)]),
                               None),
                        b.counter)
      [] OTHER -> Lowered(None, counter)

\* add_steps(program.statements) from position k on: idx[0] += 1, then the
\* step of the statement, appended when there is one
RECURSIVE add_steps(_, _, _, _)
add_steps(statements, k, idx0, steps) ==
    IF k > Len(statements) THEN steps
    ELSE LET r == _stmt_to_step(statements[k], idx0 + 1, idx0 + 1)
         IN  add_steps(statements, k + 1, r.counter,
                       IF r.step = None THEN steps ELSE Append(steps, r.step))

\* lower(program).steps
lower(prog) == add_steps(prog, 1, 0, <<>>)

----------------------------------------------------------------------------
(* Programs given to check() and lower() as ASTs, the way the tests of the  *)
(* type checker and of the lowering could build them                        *)

\* the longest program made of any statements of the pool
MaxStmts == 2

\* the statements programs are built from
Stmt(n) ==
    LET Identifier(name) == Node("Identifier", [name |-> name], None)
        QualifiedRef(base, field) == Node("QualifiedRef", [base |-> base, field |-> field], None)
        One == Node("NumberLit", [value |-> PyInt(1)], None)
        Compare(left, op, right) ==
            Node("Comparison", [left |-> left, op |-> op, right |-> right], None)
        SetVar(name, value) == Node("SetVar", [name |-> name, value |-> value], None)
        TreatRangeAsTable(table_name) ==
            Node("TreatRangeAsTable",
                 [sheet |-> "S", range_spec |-> "A1B2", table_name |-> table_name], None)
        FilterTable(table, condition) ==
            Node("FilterTable", [table |-> table, condition |-> condition], None)
        Loop(v, stmts) ==
            Node("ForEach", [var |-> v, collection |-> Identifier("T"), body |-> stmts], None)
        Comment(text) == Node("Comment", [text |-> text], None)
    IN
    CASE n = 1 -> TreatRangeAsTable("T")
      [] n = 2 -> SetVar("x", One)
      [] n = 3 -> SetVar("y", Identifier("x"))
      [] n = 4 -> SetVar("x", Identifier("x"))
      [] n = 5 -> FilterTable("T", Compare(QualifiedRef("T", "Balance"), ">",
                                              Identifier("limit")))
      [] n = 6 -> Node("AddColumn", [table |-> "T", name |-> "c", expr |-> Identifier("x")],
                       None)
      [] n = 7 -> Node("ExportTable", [source |-> Identifier("T"), path |-> "out.csv"], None)
      [] n = 8 -> Node("CallResult", [name |-> "x"], None)
      [] n = 9 -> Node("SortTable", [table |-> "T", by |-> QualifiedRef("T", "Balance"),
                                     ascending |-> TRUE], None)
      [] n = 10 -> Loop("row", <<SetVar("v", QualifiedRef("row", "A"))>>)
      [] n = 11 -> Loop("item", <<SetVar("v", QualifiedRef("item", "A"))>>)
      [] n = 12 -> Loop("row", <<SetVar("v", Identifier("row"))>>)
      [] n = 13 -> Loop("row", <<SetVar("w", One), SetVar("v", Identifier("w"))>>)
      [] n = 14 -> SetVar("y", Identifier("w"))
      [] n = 15 -> SetVar("y", Identifier("row"))
      [] n = 16 -> Loop("row", <<TreatRangeAsTable("U")>>)
      [] n = 17 -> FilterTable("U", Compare(QualifiedRef("row", "A"), "=", One))
      [] n = 18 -> SetVar("z", Node("BinaryExpr", [left |-> One, op |-> "and",
                                                   right |-> QualifiedRef("U", "A")], None))
      [] n = 19 -> Loop("row", <<SetVar("v", One),
                                    Loop("item", <<SetVar("w", One), Comment("inner")>>),
                                    SetVar("u", One)>>)
      [] n = 20 -> Comment("note")
      [] n = 21 -> Node("OpenWorkbook", [path |-> "a.xlsx"], None)
      [] n = 22 -> Node("EnterField", [field_id |-> "amount", value |-> Identifier("x")], None)
      [] n = 23 -> Node("ExtractField", [var_name |-> "x", selector |-> "total"], None)
      [] n = 24 -> Node("UseSystem", [name |-> "ERP", version |-> "1"], None)
      [] n = 25 -> Node("LogIn", [credential |-> "clerk"], None)
      [] n = 26 -> Node("LogOut", <<>>, None)
      [] n = 27 -> Node("GoToPage", [page |-> "invoices"], None)
      [] n = 28 -> Node("ClickElement", [element_id |-> "post"], None)
      [] n = 29 -> Node("IfElse", [condition |-> Compare(Identifier("x"), "=", One),
                                   then_body |-> <<SetVar("y", One)>>, else_body |-> <<>>],
                        None)
      [] n = 30 -> Node("OnError", [action |-> "retry", value |-> Str("3")], None)
      [] n = 31 -> Node("GroupTable", [table |-> "T", by |-> QualifiedRef("T", "Balance"),
                                       aggregates |-> <<>>], None)
      [] n = 32 -> Node("VerifyCondition",
                        [condition |-> Compare(Identifier("x"), "=", One)], None)

\* longer programs: a pipeline, loops followed by uses of what they declared
ProgramScenarios == {<<21, 1, 2, 5, 7>>, <<1, 2, 13, 14>>, <<1, 16, 17>>, <<1, 10, 15>>,
                     <<1, 19, 2, 9>>, <<1, 2, 20, 19, 3>>}
ProgramShapesAst == ProgramScenarios \cup UNION {[1..n -> 1..32] : n \in 0..MaxStmts}
\* the Program whose statements are those of the shape
Statements(shape) == [k \in 1..Len(shape) |-> Stmt(shape[k])]

----------------------------------------------------------------------------
(* lexer.py: tokenize.  The source is the sequence of its characters.       *)

\* a Python float, as the decimal num / 10^scale without trailing zeros
RECURSIVE Float(_, _)
Float(num, scale) ==
    IF scale > 0 /\ num % 10 = 0 THEN Float(num \div 10, scale - 1)
    ELSE [t |-> "float", num |-> num, scale |-> scale]

\* Token(kind, value, line, column); value is a Python value
Token(kind, value, line, column) ==
    [kind |-> kind, value |-> value, line |-> line, column |-> column]

\* load_keywords(): grammar/keywords.yaml does not exist, so the fallback set
Keywords ==
    {"Open", "workbook", "In", "sheet", "treat", "range", "as", "table", "Set", "to",
     "Add", "column", "Filter", "where", "Export", "Use", "system", "version", "Log",
     "in", "out", "credential", "Go", "page", "Enter", "Click", "Extract", "from",
     "field", "element", "For", "each", "Call", "result", "date", "row"}

\* c.isdigit()
isdigit(c) == c \in {"0", "1", "2", "3", "4", "5", "6", "7", "8", "9"}
\* c.isalpha()
isalpha(c) ==
    c \in {"a", "b", "c", "d", "e", "f", "g", "h", "i", "j", "k", "l", "m", "n", "o", "p", "q",
     "r", "s", "t", "u", "v", "w", "x", "y", "z", "A", "B", "C", "D", "E", "F", "G", "H",
     "I", "J", "K", "L", "M", "N", "O", "P", "Q", "R", "S", "T", "U", "V", "W", "X", "Y",
     "Z"}
\* c in " \t"
Blank(c) == c \in {" ", "\t"}

\* source[i], i counted from 0
CharAt(src, i) == src[i + 1]
\* source[start:i]
Slice(src, start, i) == SubSeq(src, start + 1, i)

RECURSIVE Text(_)
\* the str made of the characters
Text(chars) == IF chars = <<>> THEN "" ELSE Head(chars) \o Text(Tail(chars))

RECURSIVE IntOf(_, _)
\* int() of the digits of chars, read after the digits that gave acc
IntOf(chars, acc) ==
    IF chars = <<>> THEN acc ELSE IntOf(Tail(chars), 10 * acc + (CHOOSE d \in 0..9 : DigitChar(d) = Head(chars)))

\* float(num_str) if "." in num_str else int(num_str)
NumberValue(chars) ==
    IF \E k \in 1..Len(chars) : chars[k] = "."
    THEN LET dot == CHOOSE k \in 1..Len(chars) : chars[k] = "."
         IN  Float(IntOf(SubSeq(chars, 1, dot - 1) \o SubSeq(chars, dot + 1, Len(chars)), 0),
                   Len(chars) - dot)
    ELSE PyInt(IntOf(chars, 0))

\* advance(): one character on, keeping line_no and col
advance(src, lx) ==
    IF lx.i >= Len(src) THEN lx
    ELSE IF CharAt(src, lx.i) = "\n"
         THEN [lx EXCEPT !.i = @ + 1, !.col = 0, !.line_no = @ + 1]
         ELSE [lx EXCEPT !.i = @ + 1, !.col = @ + 1]

\* peek(): source[i], the character tokenize is looking at (c), or None
\* (here "") at the end
peek(src, lx) == IF lx.i >= Len(src) THEN "" ELSE CharAt(src, lx.i)

\* tokens.append(Token(kind, value, line_no, col))
Emit(lx, kind, value) ==
    [lx EXCEPT !.tokens = Append(@, Token(kind, value, lx.line_no, lx.col))]

RECURSIVE SkipSpaces(_, _)
\* while i < len(source) and source[i] in " \t" and source[i] != "\n": advance()
SkipSpaces(src, lx) ==
    IF lx.i < Len(src) /\ Blank(CharAt(src, lx.i)) THEN SkipSpaces(src, advance(src, lx))
    ELSE lx

RECURSIVE RestOfLine(_, _)
\* while i < len(source) and source[i] != "\n": i += 1; col += 1
RestOfLine(src, lx) ==
    IF lx.i < Len(src) /\ CharAt(src, lx.i) # "\n"
    THEN RestOfLine(src, [lx EXCEPT !.i = @ + 1, !.col = @ + 1])
    ELSE lx

\* a read_comment that stops in front of the newline
read_comment_KeepNewline(src, lx) == RestOfLine(src, lx)
\* read_comment(): the rest of the line, then the newline through advance()
\* and once more line_no += 1, col = 0
read_comment(src, lx) ==
    LET e == RestOfLine(src, lx)
    IN  IF e.i < Len(src) THEN [advance(src, e) EXCEPT !.line_no = @ + 1, !.col = 0]
        ELSE e

RECURSIVE MeasureIndent(_, _, _)
\* the loop of the indentation branch: the width so far, a tab being 4
MeasureIndent(src, lx, spaces) ==
    IF lx.i < Len(src) /\ Blank(CharAt(src, lx.i))
    THEN MeasureIndent(src, advance(src, lx),
                       spaces + (IF CharAt(src, lx.i) = "\t" THEN 4 ELSE 1))
    ELSE [lx |-> lx, spaces |-> spaces]

RECURSIVE PopDedents(_, _)
\* while indent_stack and spaces < indent_stack[-1]: pop, DEDENT
PopDedents(lx, spaces) ==
    IF lx.indent_stack # <<>> /\ spaces < lx.indent_stack[Len(lx.indent_stack)]
    THEN PopDedents([lx EXCEPT !.indent_stack = SubSeq(@, 1, Len(@) - 1),
                               !.tokens = Append(@, Token("DEDENT", None, lx.line_no, 0))],
                    spaces)
    ELSE lx

\* the branch `if col == 0 and c in " \t"`
Indentation(src, lx) ==
    LET m == MeasureIndent(src, lx, 0)
        p == PopDedents(m.lx, m.spaces)
    IN  IF m.lx.i < Len(src) /\ CharAt(src, m.lx.i) = "\n" THEN m.lx
        ELSE IF p.indent_stack # <<>> /\ m.spaces > p.indent_stack[Len(p.indent_stack)]
        THEN [p EXCEPT !.indent_stack = Append(@, m.spaces),
                       !.tokens = Append(@, Token("INDENT", None, p.line_no, 0))]
        ELSE p

RECURSIVE ScanString(_, _)
\* while i < len(source) and source[i] != '"': a backslash takes the next
\* character with it
ScanString(src, lx) ==
    IF lx.i < Len(src) /\ CharAt(src, lx.i) # "\""
    THEN ScanString(src, IF CharAt(src, lx.i) = "\\" THEN advance(src, advance(src, lx))
                         ELSE advance(src, lx))
    ELSE lx

RECURSIVE ScanNumber(_, _, _)
\* the digits, and one "." when a digit follows it
ScanNumber(src, lx, seen_dot) ==
    IF lx.i >= Len(src) THEN lx
    ELSE LET ch == CharAt(src, lx.i)
         IN  IF ch = "."
             THEN IF seen_dot \/ lx.i + 1 >= Len(src) \/ ~isdigit(CharAt(src, lx.i + 1))
                  THEN lx
                  ELSE ScanNumber(src, advance(src, lx), TRUE)
             ELSE IF isdigit(ch) THEN ScanNumber(src, advance(src, lx), seen_dot)
             ELSE lx

RECURSIVE ScanWord(_, _)
\* while i < len(source) and (source[i].isalnum() or source[i] == "_"): advance()
ScanWord(src, lx) ==
    IF lx.i < Len(src) /\ (isalpha(CharAt(src, lx.i)) \/ isdigit(CharAt(src, lx.i))
                        \/ CharAt(src, lx.i) = "_")
    THEN ScanWord(src, advance(src, lx))
    ELSE lx

\* the kind of a one-character punctuation token
Punctuation ==
    [c \in {".", ",", ":", "(", ")"} |->
        CASE c = "." -> "DOT" [] c = "," -> "COMMA" [] c = ":" -> "COLON"
          [] c = "(" -> "LPAREN" [] c = ")" -> "RPAREN"]

\* one turn of `while i < len(source)` in tokenize
MainLoop(src, lx0) ==
    LET lx == SkipSpaces(src, lx0)
        c == CharAt(src, lx.i)
        two == advance(src, advance(src, lx))
    IN
    IF lx.i >= Len(src) THEN lx
    ELSE IF c = "\n" THEN advance(src, Emit(lx, "NEWLINE", Str("\n")))
    ELSE IF c = "-" /\ peek(src, lx) # "" /\ lx.i + 1 >= Len(src)
         THEN [lx EXCEPT !.error = "IndexError"]
    ELSE IF c = "-" /\ peek(src, lx) # "" /\ CharAt(src, lx.i + 1) = "-"
         THEN read_comment(src, [two EXCEPT !.col = @ - 2])
    ELSE IF lx.col = 0 /\ Blank(c) THEN Indentation(src, lx)
    ELSE IF c \in DOMAIN Punctuation THEN advance(src, Emit(lx, Punctuation[c], Str(c)))
    ELSE IF c = "="
         THEN IF peek(src, lx) = "=" THEN Emit(two, "EQ", Str("="))
              ELSE advance(src, Emit(lx, "EQ", Str("=")))
    ELSE IF c = ">" /\ peek(src, lx) = "=" THEN Emit(two, "GTE", Str(">="))
    ELSE IF c = ">" THEN advance(src, Emit(lx, "GT", Str(">")))
    ELSE IF c = "<" /\ peek(src, lx) = "=" THEN Emit(two, "LTE", Str("<="))
    ELSE IF c = "<" THEN advance(src, Emit(lx, "LT", Str("<")))
    ELSE IF c = "!" /\ peek(src, lx) = "=" THEN Emit(two, "NE", Str("!="))
    ELSE IF c = "\""
         THEN LET opened == advance(src, lx)
                  e == ScanString(src, opened)
                  closed == IF e.i < Len(src) THEN advance(src, e) ELSE e
              IN  Emit(closed, "STRING", Str(Text(Slice(src, opened.i, e.i))))
    ELSE IF isdigit(c)
         THEN LET e == ScanNumber(src, lx, FALSE)
              IN  Emit(e, "NUMBER", NumberValue(Slice(src, lx.i, e.i)))
    ELSE IF isalpha(c) \/ c = "_"
         THEN LET e == ScanWord(src, lx)
                  word == Text(Slice(src, lx.i, e.i))
              IN  Emit(e, IF word \in Keywords THEN "KEYWORD" ELSE "IDENT", Str(word))
    ELSE [advance(src, lx) EXCEPT !.error = "ParseError"]

RECURSIVE TrailingDedents(_)
\* while len(indent_stack) > 1: pop, DEDENT
TrailingDedents(lx) ==
    IF Len(lx.indent_stack) > 1
    THEN TrailingDedents([lx EXCEPT !.indent_stack = SubSeq(@, 1, Len(@) - 1),
                                    !.tokens = Append(@, Token("DEDENT", None, lx.line_no,
                                                               lx.col))])
    ELSE lx

----------------------------------------------------------------------------
(* parser.py: Parser.  tokens is self.tokens, pos is self.pos.              *)

\* raise ParseError(..., t.line, t.column, self.path)
ParseError(t) ==
    [raised |-> TRUE, error |-> "ParseError", line |-> t.line, column |-> t.column]
\* a parse method returned node, self.pos being pos
Parsed(node, pos) == [raised |-> FALSE, node |-> node, pos |-> pos]

\* Parser.peek()
Parser_peek(tokens, pos) ==
    IF pos >= Len(tokens) THEN tokens[Len(tokens)] ELSE tokens[pos + 1]
\* self.pos after Parser.advance()
Parser_advance(tokens, pos) == IF pos < Len(tokens) THEN pos + 1 ELSE pos
\* Parser.at(kind, value); value None stands for no value given
at(tokens, pos, kind, value) ==
    LET t == Parser_peek(tokens, pos)
    IN  t.kind = kind /\ (value # None => t.value = value)
\* Parser.expect(kind, value): the token, or ParseError
expect(tokens, pos, kind, value) ==
    LET t == Parser_peek(tokens, pos)
    IN  IF t.kind # kind \/ (value # None /\ t.value # value) THEN ParseError(t)
        ELSE [raised |-> FALSE, tok |-> t, pos |-> Parser_advance(tokens, pos)]
\* Parser.loc(token)
loc(token) == SourceLoc(token.line, token.column)

RECURSIVE _skip_newlines(_, _)
\* while self.at(NEWLINE): self.advance()
_skip_newlines(tokens, pos) ==
    IF at(tokens, pos, "NEWLINE", None) THEN _skip_newlines(tokens, Parser_advance(tokens, pos))
    ELSE pos

RECURSIVE parse_expression(_, _)
RECURSIVE parse_or_loop(_, _, _)
RECURSIVE parse_and(_, _)
RECURSIVE parse_and_loop(_, _, _)
RECURSIVE parse_compare(_, _)
RECURSIVE parse_primary(_, _)

\* A local operator of a parse method is what the method does with what a
\* call of it returned: a ParseError the call raised goes on to the caller.

parse_primary(tokens, pos) ==
    LET t == Parser_peek(tokens, pos)
        p1 == Parser_advance(tokens, pos)
        Field(base, f) ==
            IF f.raised THEN f
            ELSE Parsed(Node("QualifiedRef", [base |-> base, field |-> f.tok.value.s],
                             loc(t)), f.pos)
        \* float(amount_t.value)
        Money(a) ==
            IF a.raised THEN a
            ELSE Parsed(Node("MoneyLit",
                             [currency |-> t.value,
                              amount |-> IF a.tok.value.t = "int" THEN Float(a.tok.value.n, 0)
                                         ELSE a.tok.value], loc(t)), a.pos)
        Date(d) ==
            IF d.raised THEN d
            ELSE Parsed(Node("DateLit", [value |-> d.tok.value], loc(t)), d.pos)
        Closed(e, r) == IF r.raised THEN r ELSE Parsed(e.node, r.pos)
        Inner(e) ==
            IF e.raised THEN e ELSE Closed(e, expect(tokens, e.pos, "RPAREN", None))
    IN
    IF at(tokens, pos, "NUMBER", None)
    THEN Parsed(Node("NumberLit", [value |-> t.value], loc(t)), p1)
    ELSE IF at(tokens, pos, "STRING", None)
    THEN Parsed(Node("StringLit", [value |-> t.value], loc(t)), p1)
    ELSE IF /\ at(tokens, pos, "KEYWORD", Str("row"))
            /\ pos + 2 < Len(tokens)
            /\ tokens[pos + 2].kind = "DOT"
            /\ tokens[pos + 3].kind = "IDENT"
         THEN Field("row", expect(tokens, Parser_advance(tokens, p1), "IDENT", None))
    ELSE IF /\ at(tokens, pos, "KEYWORD", None) \/ at(tokens, pos, "IDENT", None)
            /\ t.value \in {Str("USD"), Str("EUR"), Str("GBP")}
            /\ pos + 1 < Len(tokens)
            /\ tokens[pos + 2].kind = "NUMBER"
         THEN Money(expect(tokens, p1, "NUMBER", None))
    ELSE IF at(tokens, pos, "KEYWORD", Str("date"))
         THEN Date(expect(tokens, p1, "STRING", None))
    ELSE IF at(tokens, pos, "IDENT", None)
         THEN IF /\ at(tokens, p1, "DOT", None)
                 /\ p1 + 1 < Len(tokens)
                 /\ tokens[p1 + 2].kind = "IDENT"
              THEN Field(t.value.s, expect(tokens, Parser_advance(tokens, p1), "IDENT", None))
              ELSE Parsed(Node("Identifier", [name |-> t.value.s], loc(t)), p1)
    ELSE IF at(tokens, pos, "LPAREN", None) THEN Inner(parse_expression(tokens, p1))
    ELSE ParseError(t)

\* parse_compare; its operands are parse_additive, which is parse_term, which
\* is parse_primary (the while loop of parse_additive only breaks)
parse_compare(tokens, pos) ==
    LET CompOp == [EQ |-> "=", GT |-> ">", GTE |-> ">=", LT |-> "<", LTE |-> "<=",
                   NE |-> "!="]
        Compared(left, op_t, right) ==
            IF right.raised THEN right
            ELSE Parsed(Node("Comparison", [left |-> left.node, op |-> CompOp[op_t.kind],
                                            right |-> right.node],
                             loc(tokens[right.pos])),
                        right.pos)
        Operator(left) ==
            IF left.raised THEN left
            ELSE IF Parser_peek(tokens, left.pos).kind \in DOMAIN CompOp
            THEN Compared(left, Parser_peek(tokens, left.pos),
                          parse_primary(tokens, Parser_advance(tokens, left.pos)))
            ELSE left
    IN  Operator(parse_primary(tokens, pos))

\* the while loop of parse_and, left being the expression so far
parse_and_loop(tokens, left, pos) ==
    LET Right(right) ==
            IF right.raised THEN right
            ELSE parse_and_loop(tokens,
                                Node("BinaryExpr", [left |-> left, op |-> "and",
                                                    right |-> right.node],
                                     loc(Parser_peek(tokens, pos))),
                                right.pos)
    IN  IF at(tokens, pos, "KEYWORD", Str("and"))
        THEN Right(parse_compare(tokens, Parser_advance(tokens, pos)))
        ELSE Parsed(left, pos)

parse_and(tokens, pos) ==
    LET Left(left) ==
            IF left.raised THEN left ELSE parse_and_loop(tokens, left.node, left.pos)
    IN  Left(parse_compare(tokens, pos))

\* the while loop of parse_or, left being the expression so far
parse_or_loop(tokens, left, pos) ==
    LET Right(right) ==
            IF right.raised THEN right
            ELSE parse_or_loop(tokens,
                               Node("BinaryExpr", [left |-> left, op |-> "or",
                                                   right |-> right.node],
                                    loc(Parser_peek(tokens, pos))),
                               right.pos)
    IN  IF at(tokens, pos, "KEYWORD", Str("or"))
        THEN Right(parse_and(tokens, Parser_advance(tokens, pos)))
        ELSE Parsed(left, pos)

\* parse_expression: parse_or
parse_expression(tokens, pos) ==
    LET Left(left) ==
            IF left.raised THEN left ELSE parse_or_loop(tokens, left.node, left.pos)
    IN  Left(parse_and(tokens, pos))

RECURSIVE Sequence(_, _, _, _, _)
\* the expect and parse_expression calls of a statement method, one after
\* the other from item k on; the first ParseError ends them.  An item is
\* <<kind, value, field>>: expect(kind, value), value "" for none given, or
\* parse_expression() for the kind EXPR; field is the field of the node that
\* takes the token's value or the expression, "" when it is not kept
Sequence(tokens, pos, items, k, got) ==
    LET kind == items[k][1]
        value == IF items[k][2] = "" THEN None ELSE Str(items[k][2])
        field == items[k][3]
        Keep(r, v) ==
            IF r.raised THEN r
            ELSE Sequence(tokens, r.pos, items, k + 1,
                          IF field = "" THEN got ELSE (field :> v) @@ got)
        Expression(e) == Keep(e, IF e.raised THEN None ELSE e.node)
        Expected(t) == Keep(t, IF t.raised THEN None ELSE t.tok.value.s)
    IN  IF k > Len(items) THEN [raised |-> FALSE, pos |-> pos, got |-> got]
        ELSE IF kind = "EXPR" THEN Expression(parse_expression(tokens, pos))
        ELSE Expected(expect(tokens, pos, kind, value))

\* the statement methods that are a fixed run of expect and parse_expression
\* calls after `start = self.advance()`, by the keyword they start with: the
\* class they return and their items
Productions ==
    [Open |-> [class |-> "OpenWorkbook",
               items |-> <<<<"KEYWORD", "workbook", "">>, <<"STRING", "", "path">>,
                           <<"DOT", "", "">>>>],
     In |-> [class |-> "TreatRangeAsTable",
             items |-> <<<<"KEYWORD", "sheet", "">>, <<"STRING", "", "sheet">>,
                         <<"COMMA", "", "">>, <<"KEYWORD", "treat", "">>,
                         <<"KEYWORD", "range", "">>, <<"IDENT", "", "range_spec">>,
                         <<"KEYWORD", "as", "">>, <<"KEYWORD", "table", "">>,
                         <<"IDENT", "", "table_name">>, <<"DOT", "", "">>>>],
     Set |-> [class |-> "SetVar",
              items |-> <<<<"IDENT", "", "name">>, <<"KEYWORD", "to", "">>,
                          <<"EXPR", "", "value">>, <<"DOT", "", "">>>>],
     Call |-> [class |-> "CallResult",
               items |-> <<<<"KEYWORD", "result", "">>, <<"IDENT", "", "name">>,
                           <<"DOT", "", "">>>>],
     Add |-> [class |-> "AddColumn",
              items |-> <<<<"KEYWORD", "column", "">>, <<"IDENT", "", "name">>,
                          <<"KEYWORD", "to", "">>, <<"IDENT", "", "table">>,
                          <<"KEYWORD", "as", "">>, <<"EXPR", "", "expr">>,
                          <<"DOT", "", "">>>>],
     Filter |-> [class |-> "FilterTable",
                 items |-> <<<<"IDENT", "", "table">>, <<"KEYWORD", "where", "">>,
                             <<"EXPR", "", "condition">>, <<"DOT", "", "">>>>],
     Export |-> [class |-> "ExportTable",
                 items |-> <<<<"EXPR", "", "source">>, <<"KEYWORD", "to", "">>,
                             <<"STRING", "", "path">>, <<"DOT", "", "">>>>],
     Use |-> [class |-> "UseSystem",
              items |-> <<<<"KEYWORD", "system", "">>, <<"STRING", "", "name">>,
                          <<"KEYWORD", "version", "">>, <<"STRING", "", "version">>,
                          <<"DOT", "", "">>>>],
     Go |-> [class |-> "GoToPage",
             items |-> <<<<"KEYWORD", "to", "">>, <<"KEYWORD", "page", "">>,
                         <<"STRING", "", "page">>, <<"DOT", "", "">>>>],
     Enter |-> [class |-> "EnterField",
                items |-> <<<<"STRING", "", "field_id">>, <<"EQ", "", "">>,
                            <<"EXPR", "", "value">>, <<"DOT", "", "">>>>],
     Click |-> [class |-> "ClickElement",
                items |-> <<<<"STRING", "", "element_id">>, <<"DOT", "", "">>>>]]

\* parse_log_in_out
parse_log_in_out(tokens, pos) ==
    LET Done(class, r) ==
            IF r.raised THEN r
            ELSE Parsed(Node(class, r.got, loc(Parser_peek(tokens, pos))), r.pos)
        InOrOut(in_out) ==
            IF in_out.raised THEN in_out
            ELSE IF in_out.tok.value = Str("out")
            THEN Done("LogOut", Sequence(tokens, in_out.pos, <<<<"DOT", "", "">>>>, 1, <<>>))
            ELSE Done("LogIn",
                      Sequence(tokens, in_out.pos,
                               <<<<"KEYWORD", "as", "">>, <<"KEYWORD", "credential", "">>,
                                 <<"STRING", "", "credential">>, <<"DOT", "", "">>>>, 1, <<>>))
    IN  InOrOut(expect(tokens, Parser_advance(tokens, pos), "KEYWORD", None))

\* parse_extract
parse_extract(tokens, pos) ==
    LET Done(r) ==
            IF r.raised THEN r
            ELSE Parsed(Node("ExtractField", r.got, loc(Parser_peek(tokens, pos))), r.pos)
        From(v) ==
            IF v.raised THEN v
            ELSE IF Parser_peek(tokens, v.pos).value \notin {Str("field"), Str("element")}
            THEN ParseError(Parser_peek(tokens, v.pos))
            ELSE Done(Sequence(tokens, Parser_advance(tokens, v.pos),
                               <<<<"STRING", "", "selector">>, <<"DOT", "", "">>>>, 1, v.got))
    IN  From(Sequence(tokens, Parser_advance(tokens, pos),
                      <<<<"IDENT", "", "var_name">>, <<"KEYWORD", "from", "">>>>, 1, <<>>))

RECURSIVE parse_statement(_, _)
RECURSIVE parse_body(_, _, _)

\* the loop of parse_for_each over the statements between INDENT and DEDENT
parse_body(tokens, pos, stmts) ==
    LET More(s) ==
            IF s.raised THEN s
            ELSE parse_body(tokens, _skip_newlines(tokens, s.pos),
                            IF s.node = None THEN stmts ELSE Append(stmts, s.node))
    IN  IF at(tokens, pos, "DEDENT", None) \/ at(tokens, pos, "EOF", None)
        THEN [raised |-> FALSE, body |-> stmts,
              pos |-> IF at(tokens, pos, "DEDENT", None) THEN Parser_advance(tokens, pos)
                      ELSE pos]
        ELSE More(parse_statement(tokens, pos))

parse_for_each(tokens, pos) ==
    LET Done(var_t, head, block) ==
            IF block.raised THEN block
            ELSE Parsed(Node("ForEach", [var |-> var_t.tok.value.s,
                                         collection |-> head.got.collection,
                                         body |-> block.body],
                             loc(Parser_peek(tokens, pos))),
                        block.pos)
        Block(after) ==
            IF at(tokens, after, "INDENT", None)
            THEN parse_body(tokens, Parser_advance(tokens, after), <<>>)
            ELSE [raised |-> FALSE, body |-> <<>>, pos |-> after]
        Header(var_t, head) ==
            IF head.raised THEN head
            ELSE Done(var_t, head, Block(_skip_newlines(tokens, head.pos)))
        Variable(var_t) ==
            IF var_t.raised THEN var_t
            ELSE Header(var_t, Sequence(tokens, var_t.pos,
                                      <<<<"KEYWORD", "in", "">>, <<"EXPR", "", "collection">>,
                                        <<"COLON", "", "">>>>, 1, <<>>))
        Each(each) ==
            IF each.raised THEN each
            ELSE IF at(tokens, each.pos, "KEYWORD", Str("row"))
            THEN Variable([raised |-> FALSE, tok |-> Parser_peek(tokens, each.pos),
                           pos |-> Parser_advance(tokens, each.pos)])
            ELSE Variable(expect(tokens, each.pos, "IDENT", None))
    IN  Each(expect(tokens, Parser_advance(tokens, pos), "KEYWORD", Str("each")))

parse_statement(tokens, pos) ==
    LET t == Parser_peek(tokens, pos)
        word == IF t.kind = "KEYWORD" THEN t.value.s ELSE ""
        Done(r) ==
            IF r.raised THEN r ELSE Parsed(Node(Productions[word].class, r.got, loc(t)), r.pos)
    IN
    IF at(tokens, pos, "EOF", None) THEN Parsed(None, pos)
    ELSE IF word = "For" THEN parse_for_each(tokens, pos)
    ELSE IF word = "Log" THEN parse_log_in_out(tokens, pos)
    ELSE IF word = "Extract" THEN parse_extract(tokens, pos)
    ELSE IF word \in DOMAIN Productions
         THEN Done(Sequence(tokens, Parser_advance(tokens, pos), Productions[word].items, 1,
                            <<>>))
    ELSE IF at(tokens, pos, "NEWLINE", None) THEN Parsed(None, Parser_advance(tokens, pos))
    ELSE ParseError(t)

RECURSIVE parse_program(_, _, _)
\* the loop of parse_program, statements being the list so far
parse_program(tokens, pos, statements) ==
    LET More(stmt) ==
            IF stmt.raised THEN stmt
            ELSE parse_program(tokens, stmt.pos,
                               IF stmt.node = None THEN statements
                               ELSE Append(statements, stmt.node))
    IN  IF at(tokens, pos, "EOF", None) \/ at(tokens, _skip_newlines(tokens, pos), "EOF", None)
        THEN [raised |-> FALSE, statements |-> statements,
              pos |-> _skip_newlines(tokens, pos)]
        ELSE More(parse_statement(tokens, _skip_newlines(tokens, pos)))

----------------------------------------------------------------------------
(* Sources *)

\* the longest source made of any characters of SourceAlphabet
MaxSourceLen == 3
SourceAlphabet == {" ", "\t", "\n", "x", "1", ".", "=", ">", "<", "!", "-"}

\* the source Set x to 1. -- trailing
Src_Comment ==
    <<"S", "e", "t", " ", "x", " ", "t", "o", " ", "1", ".", " ", "-", "-", " ", "t",
      "r", "a", "i", "l", "i", "n", "g", "\n">>
\* the source For each row in T: /   Set x to 1. / Set y to 2.
Src_Block ==
    <<"F", "o", "r", " ", "e", "a", "c", "h", " ", "r", "o", "w", " ", "i", "n", " ",
      "T", ":", "\n", " ", " ", "S", "e", "t", " ", "x", " ", "t", "o", " ", "1", ".",
      "\n", "S", "e", "t", " ", "y", " ", "t", "o", " ", "2", ".", "\n">>
\* the source For each item in T: / <tab>Set x to item.A. / <tab>Call result x. / Export T to "o.csv".
Src_TabBlock ==
    <<"F", "o", "r", " ", "e", "a", "c", "h", " ", "i", "t", "e", "m", " ", "i", "n",
      " ", "T", ":", "\n", "\t", "S", "e", "t", " ", "x", " ", "t", "o", " ", "i", "t",
      "e", "m", ".", "A", ".", "\n", "\t", "C", "a", "l", "l", " ", "r", "e", "s", "u",
      "l", "t", " ", "x", ".", "\n", "E", "x", "p", "o", "r", "t", " ", "T", " ", "t",
      "o", " ", "\"", "o", ".", "c", "s", "v", "\"", ".", "\n">>

\* the sources of tests/ and of the statements and expressions the parser knows
FixedSources ==
    {Src_Comment, Src_Block, Src_TabBlock,
     \* Open workbook "a.xlsx". / In sheet "S", treat range A1 as table T. / Add column c to T as T.A. / Filter T where T.Balance > 0.
     <<"O", "p", "e", "n", " ", "w", "o", "r", "k", "b", "o", "o", "k", " ", "\"", "a",
       ".", "x", "l", "s", "x", "\"", ".", "\n", "I", "n", " ", "s", "h", "e", "e", "t",
       " ", "\"", "S", "\"", ",", " ", "t", "r", "e", "a", "t", " ", "r", "a", "n", "g",
       "e", " ", "A", "1", " ", "a", "s", " ", "t", "a", "b", "l", "e", " ", "T", ".",
       "\n", "A", "d", "d", " ", "c", "o", "l", "u", "m", "n", " ", "c", " ", "t", "o",
       " ", "T", " ", "a", "s", " ", "T", ".", "A", ".", "\n", "F", "i", "l", "t", "e",
       "r", " ", "T", " ", "w", "h", "e", "r", "e", " ", "T", ".", "B", "a", "l", "a",
       "n", "c", "e", " ", ">", " ", "0", ".", "\n">>,
     \* Use system "E" version "1". / Log in as credential "c". / Go to page "p". / Enter "f" = x. / Click "b". / Extract v from field "s". / Log out.
     <<"U", "s", "e", " ", "s", "y", "s", "t", "e", "m", " ", "\"", "E", "\"", " ", "v",
       "e", "r", "s", "i", "o", "n", " ", "\"", "1", "\"", ".", "\n", "L", "o", "g",
       " ", "i", "n", " ", "a", "s", " ", "c", "r", "e", "d", "e", "n", "t", "i", "a",
       "l", " ", "\"", "c", "\"", ".", "\n", "G", "o", " ", "t", "o", " ", "p", "a",
       "g", "e", " ", "\"", "p", "\"", ".", "\n", "E", "n", "t", "e", "r", " ", "\"",
       "f", "\"", " ", "=", " ", "x", ".", "\n", "C", "l", "i", "c", "k", " ", "\"",
       "b", "\"", ".", "\n", "E", "x", "t", "r", "a", "c", "t", " ", "v", " ", "f", "r",
       "o", "m", " ", "f", "i", "e", "l", "d", " ", "\"", "s", "\"", ".", "\n", "L",
       "o", "g", " ", "o", "u", "t", ".", "\n">>,
     \* Set m to USD 5. / Set d to date "d". / Set p to (row.A). / Set f to 1.50.
     <<"S", "e", "t", " ", "m", " ", "t", "o", " ", "U", "S", "D", " ", "5", ".", "\n",
       "S", "e", "t", " ", "d", " ", "t", "o", " ", "d", "a", "t", "e", " ", "\"", "d",
       "\"", ".", "\n", "S", "e", "t", " ", "p", " ", "t", "o", " ", "(", "r", "o", "w",
       ".", "A", ")", ".", "\n", "S", "e", "t", " ", "f", " ", "t", "o", " ", "1", ".",
       "5", "0", ".", "\n">>,
     \* Filter T where T.A >= 10. / Filter T where x<=y.
     <<"F", "i", "l", "t", "e", "r", " ", "T", " ", "w", "h", "e", "r", "e", " ", "T",
       ".", "A", " ", ">", "=", " ", "1", "0", ".", "\n", "F", "i", "l", "t", "e", "r",
       " ", "T", " ", "w", "h", "e", "r", "e", " ", "x", "<", "=", "y", ".", "\n">>}
Sources == FixedSources \cup UNION {[1..n -> SourceAlphabet] : n \in 0..MaxSourceLen}

----------------------------------------------------------------------------
(* The front end as its callers drive it: parse(source), check(program),    *)
(* lower(program)                                                          *)

runVars == <<openpyxl, WORKBOOK_STACK, csv_out, runs, pc, ir, dry_run, env, trace, idx,
             collection, var, body, row_i, body_i, returned, calls, hist,
             stack_before, last_opened>>

\* a caller holds a Program it built itself, or a source text: parse(source)
\* begins with tokenize(source)
FrontInit ==
    /\ RunIdle(FALSE)
    /\ ToolIdle
    /\ lexer = LexerStart
    /\ parsed = NotDone
    /\ checked = NotDone
    /\ lowered = <<>>
    /\ \/ \E shape \in ProgramShapesAst :
            stage = "parsed" /\ source = <<>> /\ program = Statements(shape)
       \/ \E src \in Sources : stage = "lex" /\ source = src /\ program = <<>>

\* tokenize goes once through its main loop; an exception ends the front end
LexStep ==
    /\ stage = "lex"
    /\ lexer.i < Len(source)
    /\ lexer' = MainLoop(source, lexer)
    /\ stage' = IF lexer'.error # "" THEN "failed" ELSE "lex"
    /\ UNCHANGED <<source, parsed, program, checked, lowered, runVars, toolVars>>

\* tokenize leaves its main loop: the DEDENTs for what is left on the stack,
\* then EOF, and the tokens are returned
LexEnd ==
    /\ stage = "lex"
    /\ lexer.i >= Len(source)
    /\ lexer' = Emit(TrailingDedents(lexer), "EOF", None)
    /\ stage' = "lexed"
    /\ UNCHANGED <<source, parsed, program, checked, lowered, runVars, toolVars>>

\* parse(): Parser(tokens).parse_program(); ParseError ends the front end
Parse ==
    /\ stage = "lexed"
    /\ parsed' = [done |-> TRUE, result |-> parse_program(lexer.tokens, 0, <<>>)]
    /\ program' = IF parsed'.result.raised THEN <<>> ELSE parsed'.result.statements
    /\ stage' = IF parsed'.result.raised THEN "failed" ELSE "parsed"
    /\ UNCHANGED <<source, lexer, checked, lowered, runVars, toolVars>>

\* check(program) is called; TypeCheckError ends the pipeline
Check ==
    /\ stage = "parsed"
    /\ checked' = [done |-> TRUE, result |-> check(program)]
    /\ stage' = IF checked'.result.raised THEN "rejected" ELSE "checked"
    /\ UNCHANGED <<source, lexer, parsed, program, lowered, runVars, toolVars>>

\* lower(program) is called, after check (run_cmd) or without it (lower_cmd)
Lower ==
    /\ stage \in {"parsed", "checked"}
    /\ lowered' = lower(program)
    /\ stage' = "lowered"
    /\ UNCHANGED <<source, lexer, parsed, program, checked, runVars, toolVars>>

FrontNext ==
    \/ LexStep
    \/ LexEnd
    \/ Parse
    \/ Check
    \/ Lower

FrontSpec == FrontInit /\ [][FrontNext]_vars

----------------------------------------------------------------------------
(* tools/excel.py: table_sort and its helpers *)

\* _sort_key(val): the tuple (0, "") or (1, str(val)), written as the sequence
\* of its first component and the code points of its string in their order;
\* str(val) of the values that the cells of the tables here hold, whole
\* numbers being ints
_sort_key(val) ==
    LET Ascii == <<".", "0", "1", "2", "3", "4", "5", "6", "7", "8", "9", "A", "B",
                   "b", "c", "e", "i", "l", "o">>
        ord(c) == CHOOSE i \in 1..Len(Ascii) : Ascii[i] = c
        Chars(s) == CASE s = "Alice" -> <<"A", "l", "i", "c", "e">>
                      [] s = "Bob" -> <<"B", "o", "b">>
                      [] s = "50" -> <<"5", "0">>
        Digits[n \in Nat] == IF n < 10 THEN <<DigitChar(n)>>
                             ELSE Append(Digits[n \div 10], DigitChar(n % 10))
        str == CASE val.t = "str" -> Chars(val.s)
                 [] val.t = "int" ->
                        Digits[val.n \div 10]
                        \o (IF val.n % 10 = 0 THEN <<>> ELSE <<".", DigitChar(val.n % 10)>>)
    IN  IF val = None THEN <<0>>
        ELSE <<1>> \o [i \in 1..Len(str) |-> ord(str[i])]

RECURSIVE TupleLess(_, _)
\* a < b for two keys: the first place where they differ decides, and a
\* proper prefix is less
TupleLess(a, b) ==
    IF b = <<>> THEN FALSE
    ELSE IF a = <<>> THEN TRUE
    ELSE IF Head(a) = Head(b) THEN TupleLess(Tail(a), Tail(b))
    ELSE Head(a) < Head(b)

\* a descending sort made by reversing the ascending one
sorted_Reversing(xs, key, reverse) ==
    LET Before(i, j) == TupleLess(_sort_key(Get(xs[i], key)), _sort_key(Get(xs[j], key)))
        place(i) == Cardinality({j \in 1..Len(xs) :
                        Before(j, i) \/ (~Before(i, j) /\ j < i)}) + 1
        up == [p \in 1..Len(xs) |-> xs[CHOOSE i \in 1..Len(xs) : place(i) = p]]
    IN  IF reverse THEN [p \in 1..Len(xs) |-> up[Len(xs) + 1 - p]] ELSE up

\* sorted(xs, key=lambda row: _sort_key(row.get(key)), reverse=reverse): the
\* sort is stable, and with reverse the rows whose keys are equal still keep
\* the order they came in
sorted(xs, key, reverse) ==
    LET Before(i, j) ==
            IF reverse
            THEN TupleLess(_sort_key(Get(xs[j], key)), _sort_key(Get(xs[i], key)))
            ELSE TupleLess(_sort_key(Get(xs[i], key)), _sort_key(Get(xs[j], key)))
        place(i) == Cardinality({j \in 1..Len(xs) :
                        Before(j, i) \/ (~Before(i, j) /\ j < i)}) + 1
    IN  [p \in 1..Len(xs) |-> xs[CHOOSE i \in 1..Len(xs) : place(i) = p]]

\* table_sort(table, by, ascending) for a table whose rows are all dicts
table_sort(table, by, ascending) ==
    IF ~IsList(table) \/ ~Truthy(table) THEN table
    ELSE IF ~IsDict(table.xs[1]) THEN table
    ELSE LET key == IF IsStr(by) THEN by
                    ELSE IF IsDict(by) /\ StrEq(Get(by, "type"), "qualified")
                            /\ Truthy(Get(by, "field"))
                    THEN Get(by, "field")
                    ELSE None
         IN  IF key = None THEN table
             ELSE List(sorted(table.xs, key.s, ~ascending))

----------------------------------------------------------------------------
(* A table handler of excel.py called on its own, with the arguments of a   *)
(* table.filter or table.sort step                                         *)

MaxRows == 2

\* the calls: tables of up to MaxRows rows with a Name and a Balance, filtered
\* by a comparison of a column and a literal or sorted by a column
ToolCalls ==
    LET Money == Dict([type |-> Str("money"), currency |-> Str("USD"), amount |-> PyInt(500)])
        Cell(name, balance) == Dict([Name |-> Str(name), Balance |-> balance])
        Plain == {Cell(name, balance) :
                    name \in {"Alice", "Bob"}, balance \in {PyInt(0), PyInt(500), Str("50"), None}}
        Rows == Plain \cup {Cell(name, Money) : name \in {"Alice", "Bob"}}
        Tables(rows) == {List(xs) : xs \in UNION {[1..n -> rows] : n \in 0..MaxRows}}
        Literals == {NumberNode(0), NumberNode(500), Money,
                     Dict([type |-> Str("string"), value |-> Str("Bob")]),
                     Dict([type |-> Str("string"), value |-> Str("50")])}
        Conditions == {Comparison(Qualified("T", field), op, right) :
                          field \in {"Name", "Balance"},
                          op \in {"=", "!=", "<", "<=", ">", ">="},
                          right \in Literals}
    IN  {[op |-> "table.filter", table |-> table, condition |-> condition] :
            table \in Tables(Rows), condition \in Conditions}
        \cup {[op |-> "table.sort", table |-> table, by |-> by, ascending |-> ascending] :
                table \in Tables(Plain),
                by \in {Str("Balance"), Qualified("T", "Name")},
                ascending \in BOOLEAN}

ToolInit ==
    /\ RunIdle(FALSE)
    /\ FrontIdle
    /\ tool \in ToolCalls
    /\ tool_ret = NotDone

\* table_filter(table, condition)
Filter ==
    /\ tool.op = "table.filter"
    /\ ~tool_ret.done
    /\ tool_ret' = [done |-> TRUE, result |-> table_filter(tool.table, tool.condition)]
    /\ UNCHANGED <<tool, runVars, frontVars>>

\* table_sort(table, by, ascending)
Sort ==
    /\ tool.op = "table.sort"
    /\ ~tool_ret.done
    /\ tool_ret' = [done |-> TRUE,
                    result |-> [ok |-> TRUE,
                                ret |-> table_sort(tool.table, tool.by, tool.ascending)]]
    /\ UNCHANGED <<tool, runVars, frontVars>>

ToolNext ==
    \/ Filter
    \/ Sort

ToolSpec == ToolInit /\ [][ToolNext]_vars

----------------------------------------------------------------------------
(* Claims *)

Last(seq) == seq[Len(seq)]

\* a non-dry top-level step with this op has just run to completion
TopStepDone(op) ==
    /\ pc = "top" /\ ~dry_run /\ idx <= Len(ir) /\ ir[idx].op = op
    /\ pc' = "top" /\ idx' = idx + 1

\* the body steps of a for_each step, as written in the IR
BodyOf(step) ==
    IF IsList(Get(step.args, "body")) THEN Get(step.args, "body").xs ELSE <<>>
\* the loop variable of a for_each step, as written in the IR
VarOf(step) == GetOr(step.args, "var", Str("row")).s

\* the for_each at ir[idx] has run all its iterations and is about to end
LoopDone ==
    /\ pc = "loop"
    /\ row_i = Len(collection)
    /\ row_i = 0 \/ body_i > Len(body)

\* C1: a table.filter step, run through the registry with result T while
\* env[T] is a non-empty table and the condition is a comparison on a
\* qualified field, sets env[T] to the rows of the previous env[T] that
\* satisfy the comparison, in their order.
C1_FilterThroughRegistry ==
    [][ ( /\ TopStepDone("table.filter")
          /\ InEnv(ir[idx].result, env)
          /\ IsList(env[ir[idx].result.s]) /\ Truthy(env[ir[idx].result.s]) )
        => env'[ir[idx].result.s] =
              table_filter(env[ir[idx].result.s], Get(Last(calls').args, "condition")).ret ]_vars

\* C2: a non-dry for_each over a list of N row-objects with k non-loop body
\* steps appends N*k trace entries for the body and none for the wrapper,
\* and a body set_var whose value is <loop var>.F records row_i[F] in
\* iteration i.
C2_ForEachPerRow ==
    ( /\ LoopDone
      /\ \A i \in 1..Len(collection) : IsDict(collection[i])
      /\ \A j \in 1..Len(BodyOf(ir[idx])) :
            ~StrEq(Get(BodyOf(ir[idx])[j], "op"), "control.for_each") )
    => LET orig == BodyOf(ir[idx])
           N == Len(collection)
           k == Len(orig)
           IsBodyEntry(e) == \E j \in 1..k : StrEq(Get(orig[j], "id"), e.id)
           entries == SelectSeq(trace, IsBodyEntry)
       IN  /\ Len(entries) = N * k
           /\ \A n \in 1..Len(trace) : trace[n].id # ir[idx].id
           /\ \A i \in 1..N, j \in 1..k :
                LET value == Get(Get(orig[j], "args"), "value") IN
                ( /\ StrEq(Get(orig[j], "op"), "set_var")
                  /\ IsDict(value)
                  /\ StrEq(Get(value, "type"), "qualified")
                  /\ StrEq(Get(value, "base"), VarOf(ir[idx]))
                  /\ IsStr(Get(value, "field")) )
                => entries[(i - 1) * k + j].result = Get(collection[i], Get(value, "field").s)

\* the args of the step being executed, as written in the IR
OrigArgs ==
    IF pc = "top" THEN ir[idx].args ELSE Get(BodyOf(ir[idx])[body_i], "args")
\* the result name of the step being executed, as written in the IR
OrigResult ==
    IF pc = "top" THEN ir[idx].result ELSE Get(BodyOf(ir[idx])[body_i], "result")

\* passed is orig with every {type: ref, name: R}, R in e, replaced by e[R]
RECURSIVE RefsReplaced(_, _, _)
RefsReplaced(orig, passed, e) ==
    IF IsDict(orig) /\ StrEq(Get(orig, "type"), "ref") /\ InEnv(Get(orig, "name"), e)
    THEN passed = e[Get(orig, "name").s]
    ELSE IF IsDict(orig) /\ IsDict(passed) /\ DOMAIN orig.kv = DOMAIN passed.kv
    THEN \A k \in DOMAIN orig.kv : RefsReplaced(orig.kv[k], passed.kv[k], e)
    ELSE IF IsList(orig) /\ IsList(passed) /\ Len(orig.xs) = Len(passed.xs)
    THEN \A i \in 1..Len(orig.xs) : RefsReplaced(orig.xs[i], passed.xs[i], e)
    ELSE TRUE

\* C3: after a non-dry step with result name R completes, env[R] is the
\* value its tool returned, and every step passes to its tool, in place of
\* each {type: ref, name: R} node of its args at any depth, the value env[R].
C3_ResultBoundAndRefsPassed ==
    [][ /\ Len(calls') = Len(calls) + 1
           => RefsReplaced(OrigArgs, Last(calls').args, env)
        /\ (Len(trace') = Len(trace) + 1 /\ ~dry_run /\ Truthy(OrigResult))
           => env'[OrigResult.s] = Last(trace').result ]_vars

\* the step of ir that a tool call was made for
StepAt(c) ==
    IF c.row = 0
    THEN [id |-> ir[c.top].id, op |-> ir[c.top].op]
    ELSE [id |-> Get(BodyOf(ir[c.top])[c.step], "id").s,
          op |-> Get(BodyOf(ir[c.top])[c.step], "op").s]

\* call c is at a position of the program
ValidPos(c) ==
    /\ c.top \in 1..Len(ir)
    /\ \/ c.row = 0 /\ ir[c.top].op # "control.for_each"
       \/ /\ ir[c.top].op = "control.for_each"
          /\ c.row \in 1..c.of
          /\ c.step \in 1..Len(BodyOf(ir[c.top]))

IsFirstOfStep(c) == c.row = 0 \/ (c.row = 1 /\ c.step = 1)
IsLastOfStep(c) == c.row = 0 \/ (c.row = c.of /\ c.step = Len(BodyOf(ir[c.top])))
OnlyLoopsBetween(a, b) == \A n \in (a + 1)..(b - 1) : ir[n].op = "control.for_each"

\* call d is the call that program order puts right after call c
Follows(c, d) ==
    \/ /\ c.top = d.top /\ c.row >= 1 /\ d.row = c.row
       /\ d.step = c.step + 1
    \/ /\ c.top = d.top /\ c.row >= 1 /\ d.row = c.row + 1
       /\ c.step = Len(BodyOf(ir[c.top])) /\ d.step = 1
    \/ /\ c.top < d.top
       /\ IsLastOfStep(c) /\ IsFirstOfStep(d)
       /\ OnlyLoopsBetween(c.top, d.top)

\* C4: in a non-dry run the tool handlers are invoked in program order (top-
\* level steps in ir.steps order, rows in collection order, the body steps
\* of one row in body order and before the next row) and the trace holds
\* the completed calls in that same order.
C4_ExecutionOrder ==
    (pc \in {"top", "loop", "returned", "raised"} /\ ~dry_run) =>
        /\ Len(trace) <= Len(calls)
        /\ Len(calls) <= Len(trace) + 1
        /\ Len(calls) = Len(trace) + 1 => pc = "raised"
        /\ \A n \in 1..Len(trace) :
              /\ trace[n].id = calls[n].id
              /\ trace[n].op = calls[n].op
              /\ trace[n].args = calls[n].args
        /\ \A n \in 1..Len(calls) :
              /\ ValidPos(calls[n])
              /\ calls[n].id = StepAt(calls[n]).id
              /\ calls[n].op = StepAt(calls[n]).op
        /\ calls # <<>> => IsFirstOfStep(calls[1]) /\ OnlyLoopsBetween(0, calls[1].top)
        /\ \A n \in 1..(Len(calls) - 1) : Follows(calls[n], calls[n + 1])
        /\ (pc = "returned" /\ calls # <<>>) =>
              IsLastOfStep(Last(calls)) /\ OnlyLoopsBetween(Last(calls).top, Len(ir) + 1)
        /\ (pc = "returned" /\ calls = <<>>) => OnlyLoopsBetween(0, Len(ir) + 1)
        /\ (pc = "loop" /\ row_i >= 1 /\ body_i = 1) =>
              env[var] = collection[row_i]

\* a returned non-dry run that made a call in a second body step of a
\* second row and a call for a top-level step after that loop
C4_Witness ==
    /\ pc = "returned" /\ ~dry_run
    /\ \E n \in 1..Len(calls) :
          /\ calls[n].row >= 2 /\ calls[n].step >= 2
          /\ Last(calls).top > calls[n].top

\* C5: with openpyxl installed, every excel.read_table call returns the rows
\* of the workbook opened by the most recent preceding excel.open_workbook
\* call.
C5_ReadFromLastOpened ==
    [][ ( /\ Len(trace') = Len(trace) + 1 /\ ~dry_run /\ openpyxl
          /\ Last(trace').op = "excel.read_table"
          /\ last_opened # "" )
        => Last(trace').result = List(SheetRows(last_opened)) ]_vars

\* open A, read, open B, read: the first rows are A's, the second B's
C5_Witness ==
    /\ pc = "returned" /\ ~dry_run /\ openpyxl /\ Len(trace) = 4
    /\ trace[1].op = "excel.open_workbook" /\ trace[1].args = Dict([path |-> Str("a.xlsx")])
    /\ trace[2].op = "excel.read_table" /\ trace[2].result = List(SheetRows("a.xlsx"))
    /\ trace[3].op = "excel.open_workbook" /\ trace[3].args = Dict([path |-> Str("b.xlsx")])
    /\ trace[4].op = "excel.read_table" /\ trace[4].result = List(SheetRows("b.xlsx"))
    /\ SheetRows("a.xlsx") # SheetRows("b.xlsx")

\* C6 as stated: when a step fails fatally, run returns the partial trace
\* to its caller.
C6_PartialTraceReturned ==
    pc = "raised" => (returned.kind = "trace" /\ returned.trace = trace)

\* C6 amended: when a step fails fatally the run stops (no further step, no
\* further trace entry) and the exception reaches the caller, who gets no
\* trace.
C6_RaiseStopsRun ==
    /\ [](pc = "raised" => returned.kind = "exception")
    /\ [][pc = "raised" => pc' = "idle"]_vars

\* a run that failed after completing at least one step
C6_Witness == pc = "raised" /\ ~dry_run /\ Len(trace) >= 1

NoForEach(steps) == \A n \in 1..Len(steps) : steps[n].op # "control.for_each"

\* the same ir was run in both modes and both runs returned
BothModes == hist.set /\ pc = "returned" /\ hist.dry_run # dry_run
DryTrace == IF dry_run THEN trace ELSE hist.trace
NonDryTrace == IF dry_run THEN hist.trace ELSE trace
NonDryCalls == IF dry_run THEN hist.calls ELSE calls

C8_DryArgsArePassedArgs ==
    /\ dry_run => calls = <<>>
    /\ BothModes =>
          \A n \in 1..Len(DryTrace), m \in 1..Len(NonDryCalls) :
             NonDryCalls[m].id = DryTrace[n].id => NonDryCalls[m].args = DryTrace[n].args

\* the args of a dry-run entry: those of the IR, body defaulted to []
WrittenArgs(step) ==
    IF step.op = "control.for_each" /\ ~Truthy(Get(step.args, "body"))
    THEN Dict([k \in DOMAIN step.args.kv \cup {"body"} |->
                  IF k = "body" THEN List(<<>>) ELSE step.args.kv[k]])
    ELSE step.args

\* C8 amended: the dry run invokes no tool and binds nothing in env, so the
\* args of each dry-run entry are the args as written in the IR; they are
\* the args the non-dry run passes exactly when resolution against the
\* non-dry env changes nothing.
C8_DryArgsAsWritten ==
    /\ (dry_run /\ pc \in {"top", "returned"}) =>
          /\ calls = <<>>
          /\ env = EmptyEnv
          /\ \A n \in 1..Len(trace) :
                trace[n] = DryEntry(ir[n].id, ir[n].op, WrittenArgs(ir[n]))
    /\ BothModes =>
          \A n \in 1..Len(DryTrace), m \in 1..Len(NonDryCalls) :
             NonDryCalls[m].id = DryTrace[n].id =>
                (NonDryCalls[m].args = DryTrace[n].args <=> NonDryCalls[m].args = ir[n].args)

\* both modes ran a program in which one step passes its args unchanged
\* and another passes a resolved table name
C8_Witness ==
    /\ BothModes
    /\ \E n \in 1..Len(DryTrace), m \in 1..Len(NonDryCalls) :
          NonDryCalls[m].id = DryTrace[n].id /\ NonDryCalls[m].args = DryTrace[n].args
    /\ \E n \in 1..Len(DryTrace), m \in 1..Len(NonDryCalls) :
          /\ NonDryCalls[m].id = DryTrace[n].id /\ NonDryCalls[m].args # DryTrace[n].args
          /\ StartsWithTable(DryTrace[n].op)

\* the step before position idx is a for_each that a non-dry run completed
AfterForEach ==
    /\ pc \in {"top", "returned"} /\ ~dry_run
    /\ idx - 1 \in 1..Len(ir)
    /\ ir[idx - 1].op = "control.for_each"

\* C9: once a non-dry for_each has completed, over any collection, its loop
\* variable is not a key of env.
C9_LoopVarPopped ==
    AfterForEach => VarOf(ir[idx - 1]) \notin DOMAIN env

\* a loop that ran body steps has completed, and so has one whose variable
\* was bound before the loop
C9_Witness ==
    /\ AfterForEach
    /\ \E n \in 1..Len(trace) : trace[n].id = ir[idx - 1].id \o "a"
    /\ \E k \in 1..(idx - 2) : ir[k].result = Str(VarOf(ir[idx - 1]))

\* C10: when a run ends, by return or by failure, the workbook stack holds
\* the entries it held when the run started.
C10_WorkbooksReleased ==
    pc \in {"returned", "raised"} => WORKBOOK_STACK = stack_before

----------------------------------------------------------------------------
(* Claims about check() *)

\* the names an expression uses: the bases of its QualifiedRefs other than
\* "row" and, when idents is set, its Identifiers
RECURSIVE ExprNames(_, _)
ExprNames(expr, idents) ==
    CASE expr.node = "Identifier" -> IF idents THEN {expr.name} ELSE {}
      [] expr.node = "QualifiedRef" -> IF expr.base # "row" THEN {expr.base} ELSE {}
      [] expr.node \in {"Comparison", "BinaryExpr"} ->
            ExprNames(expr.left, idents) \cup ExprNames(expr.right, idents)
      [] OTHER -> {}

\* the names a statement refers to by itself (not through a body): the table
\* it works on, the Identifiers of its expression and the QualifiedRef bases
\* of its expression or condition.  GroupTable, which no stage of the front
\* end builds, is left out.
StmtUses(stmt) ==
    CASE stmt.node \in {"FilterTable"} -> {stmt.table} \cup ExprNames(stmt.condition, FALSE)
      [] stmt.node = "AddColumn" -> {stmt.table} \cup ExprNames(stmt.expr, TRUE)
      [] stmt.node = "SortTable" -> {stmt.table} \cup ExprNames(stmt.by, TRUE)
      [] stmt.node \in {"SetVar", "EnterField"} -> ExprNames(stmt.value, TRUE)
      [] stmt.node = "ExportTable" -> ExprNames(stmt.source, TRUE)
      [] stmt.node = "ForEach" -> ExprNames(stmt.collection, TRUE)
      [] stmt.node \in {"VerifyCondition", "IfElse"} -> ExprNames(stmt.condition, TRUE)
      [] OTHER -> {}

\* the name a statement declares
StmtDecls(stmt) ==
    CASE stmt.node = "TreatRangeAsTable" -> {stmt.table_name}
      [] stmt.node = "SetVar" -> {stmt.name}
      [] OTHER -> {}

\* a walk over the statements in program order.  declared: the names some
\* earlier statement declared, wherever it stands; scope: the names in
\* lexical scope (a loop variable and what a body declares are in scope to
\* the end of that body only); seen: declared, plus the loop variables met.
\* undeclared, unscoped, leaked collect the names used outside declared,
\* outside scope, and outside scope though seen.
WalkStart == [declared |-> {}, scope |-> {}, seen |-> {},
              undeclared |-> {}, unscoped |-> {}, leaked |-> {}]

RECURSIVE ScopeWalk(_, _, _)
ScopeWalk(stmts, k, w) ==
    IF k > Len(stmts) THEN w
    ELSE LET stmt == stmts[k]
             uses == StmtUses(stmt)
             used == [w EXCEPT !.undeclared = @ \cup (uses \ w.declared),
                               !.unscoped = @ \cup (uses \ w.scope),
                               !.leaked = @ \cup ((uses \ w.scope) \cap w.seen)]
             inner == IF stmt.node = "ForEach"
                      THEN ScopeWalk(stmt.body, 1,
                                     [used EXCEPT !.scope = @ \cup {stmt.var},
                                                  !.seen = @ \cup {stmt.var}])
                      ELSE used
             after == [inner EXCEPT !.scope = used.scope \cup StmtDecls(stmt),
                                    !.declared = @ \cup StmtDecls(stmt),
                                    !.seen = @ \cup StmtDecls(stmt)]
         IN  ScopeWalk(stmts, k + 1, after)

Walked == ScopeWalk(program, 1, WalkStart)

RECURSIVE HasNode(_, _)
\* some statement of stmts, at any depth of loop bodies, is of the class
HasNode(stmts, class) ==
    \E k \in 1..Len(stmts) :
        \/ stmts[k].node = class
        \/ stmts[k].node = "ForEach" /\ HasNode(stmts[k].body, class)

C12_LoopVariableInScope ==
    (checked.done /\ HasNode(program, "ForEach") /\ Walked.unscoped = {})
    => ~checked.result.raised

C14_CallResultDeclared ==
    ( /\ checked.done
      /\ \E k \in 1..Len(program) :
            /\ program[k].node = "CallResult"
            /\ program[k].name \notin ScopeWalk(SubSeq(program, 1, k - 1), 1, WalkStart).declared )
    => checked.result.raised

----------------------------------------------------------------------------
(* Claims about tokenize() and parse() *)

\* the kinds of the tokens, in order
Kinds(tokens) == [k \in 1..Len(tokens) |-> tokens[k].kind]
\* the classes of the statements, in order
Classes(stmts) == [k \in 1..Len(stmts) |-> stmts[k].node]

\* the sources with a For line, lines indented under it and a line after them
BlockSources == {Src_Block, Src_TabBlock}
\* the classes of the statements on the indented lines, and of the one after
IndentedLines(src) == IF src = Src_Block THEN <<"SetVar">> ELSE <<"SetVar", "CallResult">>
LineAfterBlock(src) == IF src = Src_Block THEN "SetVar" ELSE "ExportTable"

\* C15: for a source in which `For each row in T:` is followed by lines
\* indented deeper and then by a line at the indentation of the For line,
\* parse gives a ForEach whose body holds exactly the indented statements in
\* order; they are not top-level statements, the statement after them is.
C15_IndentedLinesAreTheBody ==
    (parsed.done /\ source \in BlockSources) =>
        /\ ~parsed.result.raised
        /\ Len(program) = 2
        /\ program[1].node = "ForEach"
        /\ Classes(program[1].body) = IndentedLines(source)
        /\ program[2].node = LineAfterBlock(source)

RECURSIVE LeadingWidth(_, _, _)
\* the width of the blanks from position p on, a tab being 4, and the
\* position after them
LeadingWidth(src, p, width) ==
    IF p <= Len(src) /\ Blank(src[p])
    THEN LeadingWidth(src, p + 1, width + (IF src[p] = "\t" THEN 4 ELSE 1))
    ELSE [width |-> width, p |-> p]

\* the position of the first newline at or after p, Len(src) + 1 without one
EndOfLine(src, p) ==
    IF \E k \in p..Len(src) : src[k] = "\n"
    THEN CHOOSE k \in p..Len(src) : src[k] = "\n" /\ \A j \in p..(k - 1) : src[j] # "\n"
    ELSE Len(src) + 1

RECURSIVE Dedent(_, _)
\* the stack after every level above width is popped
Dedent(stack, width) ==
    IF stack[Len(stack)] > width THEN Dedent(SubSeq(stack, 1, Len(stack) - 1), width)
    ELSE stack

RECURSIVE IndentTokens(_, _, _, _)
\* the INDENT and DEDENT tokens an indentation stack gives for the lines of
\* the source from position p on: a push and one INDENT for a non-blank line
\* wider than the top, a pop and one DEDENT for every level above a narrower
\* line, nothing for a blank line or one as wide as the top
IndentTokens(src, p, stack, out) ==
    IF p > Len(src) THEN out
    ELSE LET m == LeadingWidth(src, p, 0)
             top == stack[Len(stack)]
             next == EndOfLine(src, m.p) + 1
         IN  IF m.p > Len(src) \/ src[m.p] = "\n" THEN IndentTokens(src, next, stack, out)
             ELSE IF m.width > top
             THEN IndentTokens(src, next, Append(stack, m.width), Append(out, "INDENT"))
             ELSE LET popped == Dedent(stack, m.width)
                  IN  IndentTokens(src, next, popped,
                                   out \o [k \in 1..(Len(stack) - Len(popped)) |-> "DEDENT"])

\* C16: tokenize keeps an indentation stack starting at [0]; a non-blank
\* line wider than the top (tab = 4) pushes its width and gives one INDENT,
\* a narrower one pops every higher level and gives one DEDENT per pop, an
\* equally wide or blank line gives nothing.  Stated for sources without
\* comments; what is left on the stack at the end is popped after the lines.
C16_IndentationTokens ==
    (stage = "lexed" /\ \A k \in 1..Len(source) : source[k] # "-") =>
        LET expected == IndentTokens(source, 1, <<0>>, <<>>)
            emitted == SelectSeq(Kinds(lexer.tokens), LAMBDA k : k \in {"INDENT", "DEDENT"})
        IN  /\ Len(emitted) >= Len(expected)
            /\ SubSeq(emitted, 1, Len(expected)) = expected
            /\ \A k \in (Len(expected) + 1)..Len(emitted) : emitted[k] = "DEDENT"

\* the comparison operators by their text, and the kind of each
Operators ==
    [text \in {<<"=">>, <<"=", "=">>, <<">", "=">>, <<"<", "=">>, <<"!", "=">>, <<">">>,
               <<"<">>} |->
        CASE text \in {<<"=">>, <<"=", "=">>} -> "EQ"
          [] text = <<">", "=">> -> "GTE" [] text = <<"<", "=">> -> "LTE"
          [] text = <<"!", "=">> -> "NE" [] text = <<">">> -> "GT" [] text = <<"<">> -> "LT"]

\* the operator that starts at source[i]: the two-character one when there
\* is one, else the one-character one, else none (the empty text)
OperatorAt(src, i) ==
    IF i + 1 < Len(src) /\ Slice(src, i, i + 2) \in DOMAIN Operators THEN Slice(src, i, i + 2)
    ELSE IF i < Len(src) /\ Slice(src, i, i + 1) \in DOMAIN Operators
    THEN Slice(src, i, i + 1)
    ELSE <<>>

\* C17: at an operator tokenize appends a single token, EQ for = and ==, GTE
\* for >=, LTE for <=, NE for !=, GT or LT for a lone > or <, and goes on
\* right after the operator's characters.
C17_OperatorsConsumeThemselves ==
    [][ LET at_op == SkipSpaces(source, lexer)
            op == OperatorAt(source, at_op.i)
        IN  (stage = "lex" /\ lexer.i < Len(source) /\ op # <<>>) =>
                /\ lexer'.error = ""
                /\ Len(lexer'.tokens) = Len(lexer.tokens) + 1
                /\ lexer'.tokens[Len(lexer'.tokens)].kind = Operators[op]
                /\ lexer'.i = at_op.i + Len(op) ]_vars

\* tokenize is at a `--`
CommentAt(src, lx) ==
    lx.i + 1 < Len(src) /\ CharAt(src, lx.i) = "-" /\ CharAt(src, lx.i + 1) = "-"

\* C18: a `--` comment produces no tokens: tokenize drops every character
\* from the `--` up to and including the newline that ends it (to the end of
\* the source without one), with no token for the text and no NEWLINE; so
\* `Set x to 1. -- trailing` and a newline gives KEYWORD(Set), IDENT(x),
\* KEYWORD(to), NUMBER(1), DOT, EOF.
C18_CommentGivesNoTokens ==
    /\ [][ LET at_comment == SkipSpaces(source, lexer)
           IN  (stage = "lex" /\ lexer.i < Len(source) /\ CommentAt(source, at_comment)) =>
                   /\ lexer'.error = ""
                   /\ lexer'.tokens = lexer.tokens
                   /\ lexer'.i = IF EndOfLine(source, at_comment.i + 1) > Len(source)
                                 THEN Len(source)
                                 ELSE EndOfLine(source, at_comment.i + 1) ]_vars
    /\ []((stage = "lexed" /\ source = Src_Comment) =>
            /\ Kinds(lexer.tokens) = <<"KEYWORD", "IDENT", "KEYWORD", "NUMBER", "DOT", "EOF">>
            /\ [k \in 1..5 |-> lexer.tokens[k].value]
                  = <<Str("Set"), Str("x"), Str("to"), PyInt(1), Str(".")>>)

\* tokenize has returned the six tokens of `Set x to 1. -- trailing`
C18_Witness ==
    /\ stage = "lexed"
    /\ source = Src_Comment
    /\ Kinds(lexer.tokens) = <<"KEYWORD", "IDENT", "KEYWORD", "NUMBER", "DOT", "EOF">>

----------------------------------------------------------------------------
(* Claims about lower() *)

\* a step as id, op, args and result, whether it is an IRStep of the program
\* or a dict of a for_each body
StepFields(s) ==
    IF "t" \in DOMAIN s
    THEN [id |-> s.kv.id.s, op |-> s.kv.op.s, args |-> s.kv.args, result |-> s.kv.result]
    ELSE [id |-> s.id, op |-> s.op, args |-> s.args, result |-> s.result]

RECURSIVE PreOrder(_, _)
\* the steps from position k on in pre-order: a step, the steps of its body
\* when it is a control.for_each, then the steps after it
PreOrder(steps, k) ==
    IF k > Len(steps) THEN <<>>
    ELSE LET d == StepFields(steps[k])
         IN  <<d>> \o (IF d.op = "control.for_each" THEN PreOrder(d.args.kv.body.xs, 1)
                       ELSE <<>>)
                   \o PreOrder(steps, k + 1)

RECURSIVE StatementsPreOrder(_, _)
\* the statements from position k on in source order, loop bodies included
StatementsPreOrder(stmts, k) ==
    IF k > Len(stmts) THEN <<>>
    ELSE <<stmts[k]>> \o (IF stmts[k].node = "ForEach"
                          THEN StatementsPreOrder(stmts[k].body, 1) ELSE <<>>)
                      \o StatementsPreOrder(stmts, k + 1)

\* the number an id was formatted from
IdNumber(id) ==
    CHOOSE n \in 0..Len(StatementsPreOrder(program, 1)) : StepId(n) = id

\* C19: the ids of all steps lower produced, the steps of for_each bodies at
\* any depth included, strictly increase along the pre-order walk of the
\* steps, and so are pairwise distinct.
C19_IdsIncreaseInPreOrder ==
    stage = "lowered" =>
        LET steps == PreOrder(lowered, 1)
        IN  \A a, b \in 1..Len(steps) :
                a < b => /\ steps[a].id # steps[b].id
                         /\ IdNumber(steps[a].id) < IdNumber(steps[b].id)

\* lower numbered a loop in a loop: a step follows an inner loop's body in
\* the outer body, and a step follows the outer loop
C19_Witness ==
    /\ stage = "lowered"
    /\ \E k \in 1..Len(lowered) :
          /\ k < Len(lowered)
          /\ lowered[k].op = "control.for_each"
          /\ \E j \in 1..Len(lowered[k].args.kv.body.xs) :
                LET sub == StepFields(lowered[k].args.kv.body.xs[j])
                IN  /\ sub.op = "control.for_each"
                    /\ Len(sub.args.kv.body.xs) > 0
                    /\ j < Len(lowered[k].args.kv.body.xs)

\* the op of the lowering table for a statement class
LoweringTable ==
    [OpenWorkbook |-> "excel.open_workbook", TreatRangeAsTable |-> "excel.read_table",
     SetVar |-> "set_var", AddColumn |-> "table.add_column", FilterTable |-> "table.filter",
     SortTable |-> "table.sort", ExportTable |-> "excel.export", CallResult |-> "call_result",
     UseSystem |-> "web.use_system", LogIn |-> "web.login", LogOut |-> "web.logout",
     GoToPage |-> "web.goto_page", EnterField |-> "web.enter", ClickElement |-> "web.click",
     ExtractField |-> "web.extract", ForEach |-> "control.for_each"]

\* C20: lower gives every statement other than Comment, IfElse and OnError
\* exactly one step, with the op of the lowering table and in the order of
\* the statements; a SortTable gives a table.sort step with the args table,
\* by and ascending whose result is the table.
C20_EveryStatementLowered ==
    (stage = "lowered" /\ checked.done /\ ~checked.result.raised) =>
        LET steps == PreOrder(lowered, 1)
            stmts == SelectSeq(StatementsPreOrder(program, 1),
                               LAMBDA s : s.node \notin {"Comment", "IfElse", "OnError"})
        IN  /\ Len(steps) = Len(stmts)
            /\ \A k \in 1..Len(stmts) :
                  /\ stmts[k].node \in DOMAIN LoweringTable
                        => steps[k].op = LoweringTable[stmts[k].node]
                  /\ stmts[k].node = "SortTable"
                        => /\ DOMAIN steps[k].args.kv = {"table", "by", "ascending"}
                           /\ steps[k].result = Str(stmts[k].table)

\* C21: for every FilterTable whose condition is a Comparison, lower gives a
\* table.filter step on that table whose condition arg is the object
\* {type: "comparison", left, op, right}, left and right being the lowered
\* operands of the source condition.
C21_ComparisonLowered ==
    stage = "lowered" =>
        \A k \in 1..Len(StatementsPreOrder(program, 1)) :
            LET stmt == StatementsPreOrder(program, 1)[k]
            IN  (stmt.node = "FilterTable" /\ stmt.condition.node = "Comparison") =>
                    \E j \in 1..Len(PreOrder(lowered, 1)) :
                        LET step == PreOrder(lowered, 1)[j]
                        IN  /\ step.op = "table.filter"
                            /\ step.args.kv.table = Str(stmt.table)
                            /\ step.args.kv.condition =
                                   Dict([type |-> Str("comparison"),
                                         left |-> _expr_to_arg(stmt.condition.left),
                                         op |-> Str(stmt.condition.op),
                                         right |-> _expr_to_arg(stmt.condition.right)])

\* C22: when check accepted the program, every name in the result field of
\* a step that lower made of a statement of the program is in the symbol
\* set check ended with.
C22_ResultNamesDeclared ==
    (stage = "lowered" /\ checked.done /\ ~checked.result.raised) =>
        \A k \in 1..Len(lowered) :
            lowered[k].result # None =>
                lowered[k].result.s \in DOMAIN checked.result.symbols_here

----------------------------------------------------------------------------
(* Claims about the table handlers *)

\* the rows of xs at the places in keep, in their order
Pick(xs, keep) ==
    LET upto[i \in 0..Len(xs)] ==
            IF i = 0 THEN <<>>
            ELSE IF i \in keep THEN Append(upto[i - 1], xs[i]) ELSE upto[i - 1]
    IN  upto[Len(xs)]

\* a money object stands for its amount
Amount(v) == IF IsDict(v) /\ StrEq(Get(v, "type"), "money") THEN Get(v, "amount") ELSE v

\* op is defined on two numbers and on two strings
Comparable(a, b) == (a.t = "int" /\ b.t = "int") \/ (a.t = "str" /\ b.t = "str")

\* op(a, b) for two numbers or two strings
Holds(a, op, b) ==
    LET less(x, y) == IF x.t = "int" THEN x.n < y.n
                      ELSE TupleLess(_sort_key(x), _sort_key(y))
    IN  CASE op = "=" -> a = b
          [] op = "!=" -> a # b
          [] op = "<" -> less(a, b)
          [] op = "<=" -> less(a, b) \/ a = b
          [] op = ">" -> less(b, a)
          [] op = ">=" -> less(b, a) \/ a = b

\* C23: table_filter with a comparison of a column and a number, string or
\* money literal returns the rows of the table at some set of places, in
\* their order; wherever the operator is defined on the row's value and the
\* literal (money coerced to its amount), the row is kept exactly when the
\* operator holds.
C23_FilterKeepsSatisfying ==
    (tool.op = "table.filter" /\ tool_ret.done) =>
        /\ tool_ret.result.ok
        /\ \E keep \in SUBSET (1..Len(tool.table.xs)) :
              /\ tool_ret.result.ret = List(Pick(tool.table.xs, keep))
              /\ \A i \in 1..Len(tool.table.xs) :
                    LET val == Amount(Get(tool.table.xs[i], tool.condition.kv.left.kv.field.s))
                        lit == Amount(tool.condition.kv.right)
                        literal == IF IsDict(lit) THEN Get(lit, "value") ELSE lit
                    IN  Comparable(val, literal) =>
                            (i \in keep <=> Holds(val, tool.condition.kv.op.s, literal))

\* the column a table.sort call sorts by
SortColumn == IF IsStr(tool.by) THEN tool.by.s ELSE tool.by.kv.field.s

\* the key of a row under the key function of table_sort
KeyOf(row) == _sort_key(Get(row, SortColumn))

\* ys holds the rows of xs, each once, in the order of their keys (downwards
\* if descending), rows with equal keys in the order they have in xs
StablePermutation(xs, ys, descending) ==
    /\ Len(ys) = Len(xs)
    /\ \E f \in [1..Len(xs) -> 1..Len(xs)] :
          /\ \A p, q \in 1..Len(xs) : p # q => f[p] # f[q]
          /\ \A p \in 1..Len(xs) : ys[p] = xs[f[p]]
          /\ \A p, q \in 1..Len(xs) :
                p < q =>
                    /\ IF descending THEN ~TupleLess(KeyOf(ys[p]), KeyOf(ys[q]))
                       ELSE ~TupleLess(KeyOf(ys[q]), KeyOf(ys[p]))
                    /\ KeyOf(ys[p]) = KeyOf(ys[q]) => f[p] < f[q]

Reversed(xs) == [p \in 1..Len(xs) |-> xs[Len(xs) + 1 - p]]

\* two rows of the sorted table that differ share a key
DistinctRowsTie ==
    \E i, j \in 1..Len(tool.table.xs) :
        /\ tool.table.xs[i] # tool.table.xs[j]
        /\ KeyOf(tool.table.xs[i]) = KeyOf(tool.table.xs[j])

\* C24 as stated: table_sort returns a stable permutation of the rows, and
\* for every table, ties included, the ascending result reversed is the
\* descending result.
C24_ReverseOfAscending ==
    (tool.op = "table.sort" /\ tool_ret.done) =>
        /\ StablePermutation(tool.table.xs, tool_ret.result.ret.xs, ~tool.ascending)
        /\ Reversed(table_sort(tool.table, tool.by, TRUE).xs)
               = table_sort(tool.table, tool.by, FALSE).xs

\* C24 amended: table_sort returns a stable permutation of the rows in either
\* direction, rows with equal keys keeping their input order also when
\* descending; the ascending result reversed is the descending result
\* whenever no two differing rows share a key.
C24_StableEitherWay ==
    (tool.op = "table.sort" /\ tool_ret.done) =>
        /\ StablePermutation(tool.table.xs, tool_ret.result.ret.xs, ~tool.ascending)
        /\ ~DistinctRowsTie =>
              Reversed(table_sort(tool.table, tool.by, TRUE).xs)
                  = table_sort(tool.table, tool.by, FALSE).xs

\* a descending sort of a table in which two differing rows share a key
C24_Witness ==
    /\ tool.op = "table.sort"
    /\ tool_ret.done
    /\ ~tool.ascending
    /\ DistinctRowsTie
    /\ Reversed(table_sort(tool.table, tool.by, TRUE).xs) # tool_ret.result.ret.xs

----------------------------------------------------------------------------
(* Claims about the commands of cli.py *)

\* C25: no IR is made of a file whose program check rejects: whenever lower
\* has run on a parsed file, check has been called on the program and has
\* not raised.
C25_LowerOnlyAfterCheck ==
    (stage = "lowered" /\ source # <<>>) =>
        /\ ~check(program).raised
        /\ checked.done

----------------------------------------------------------------------------
(* Claims about loops and call_result in run() *)

\* C26: the trace entry of a body step of a for_each holds the args the IR
\* gives that body step, every {type: ref, name: X} in them replaced by the
\* value X has in the environment at the moment the body step executes.
C26_BodyResolvedWhenExecuted ==
    [][ (pc = "loop" /\ Len(trace') = Len(trace) + 1)
           => RefsReplaced(Get(BodyOf(ir[idx])[body_i], "args"), Last(trace').args, env) ]_vars

\* how many entries of tr carry this step id
CountId(tr, id) == Cardinality({i \in 1..Len(tr) : tr[i].id = id})

\* C27: no tool call and, in a non-dry run, no trace entry is made for a
\* control.for_each, at top level or as a body step of another loop; when a
\* run has returned, each body step of a loop nested in a loop over a literal
\* collection has one trace entry per pair of an outer and an inner element.
C27_ForEachHandledByInterpreter ==
    /\ \A i \in 1..Len(calls) : calls[i].op # "control.for_each"
    /\ ~dry_run => \A i \in 1..Len(trace) : trace[i].op # "control.for_each"
    /\ (pc = "returned" /\ ~dry_run) =>
          \A k \in 1..Len(ir) :
              (ir[k].op = "control.for_each" /\ IsList(Get(ir[k].args, "collection"))) =>
                  \A b \in 1..Len(BodyOf(ir[k])) :
                      LET inner == BodyOf(ir[k])[b] IN
                      StrEq(Get(inner, "op"), "control.for_each") =>
                          \A n \in 1..Len(Get(inner, "args").kv.body.xs) :
                              CountId(trace, Get(inner, "args").kv.body.xs[n].kv.id.s)
                                  = Len(Get(ir[k].args, "collection").xs)
                                    * Len(Get(inner, "args").kv.collection.xs)

\* C28: a non-dry call_result step, as lowering makes it of `Call result X.`
\* (args {name: X}, result X), leaves the environment as it was.
C28_CallResultLeavesEnv ==
    [][ TopStepDone("call_result") => env' = env ]_vars

----------------------------------------------------------------------------
(* Claims about the errors and the line numbers of tokenize() *)

\* the main loop of tokenize is at a '-' that no '-' follows or at a '!' that
\* no '=' follows
AtStrayCharacter ==
    /\ stage = "lex"
    /\ lexer.i < Len(source)
    /\ LET c == source[lexer.i + 1]
           next == IF lexer.i + 2 <= Len(source) THEN source[lexer.i + 2] ELSE ""
       IN  (c = "-" /\ next # "-") \/ (c = "!" /\ next # "=")

\* C29: tokenize fails with no other kind of error than ParseError, and a
\* '-' that no '-' follows, the last character of the source included, or a
\* '!' that no '=' follows makes it fail.
C29_OnlyParseError ==
    [][ /\ lexer'.error \in {"", "ParseError"}
        /\ AtStrayCharacter => lexer'.error # "" ]_vars

\* the 1-based number of the physical line that holds the character at
\* offset i of the source (offsets count from 0)
PhysicalLine(i) == 1 + Cardinality({k \in 1..i : source[k] = "\n"})

\* C30: every token that a pass of the main loop of tokenize appends carries
\* the number of the physical line the pass started on, and the DEDENT and
\* EOF tokens appended at the end carry the number of the last line.
C30_TokenLineNumbers ==
    [][ stage = "lex" =>
            \A n \in (Len(lexer.tokens) + 1)..Len(lexer'.tokens) :
                lexer'.tokens[n].line = PhysicalLine(lexer.i) ]_vars

====
